---- MODULE Spec2Model ----
(***************************************************************************)
(* Memory Network pipeline of the Hyperspell plugin: the processing ledger *)
(* (NetworkStateManager), the scanner (scanMemories), the completion       *)
(* tracker (completeMemories), the entity writer (writeEntity) and the     *)
(* markdown sync (syncMarkdownFile).                                       *)
(***************************************************************************)
EXTENDS Integers, Sequences, FiniteSets, TLC

(***************************************************************************)
(* Bounds of the model.                                                    *)
(***************************************************************************)
\* number of completeMemories calls in one behaviour (each reads the clock)
MaxClock == 2
\* longest remote listing drawn for the scanner
MaxListing == 2
\* largest batchSize argument tried
MaxBatch == 2
\* longest list of ids handed to completeMemories
MaxIdList == 2
\* number of writeEntity calls in one behaviour
MaxWrites == 2
\* number of addMemory calls made by sync in one behaviour
MaxUploads == 2
\* longest string handed to slugify, in characters
MaxSlugLen == 3

(***************************************************************************)
(* Program constants.                                                      *)
(***************************************************************************)
STATE_VERSION == 1
\* knowledgeGraph.batchSize default, and the CLI's fallback
DefaultBatchSize == 20

\* remote resource ids
Ids == {"m1", "m2"}
\* the filesystem paths of the ledger
StatePath == "state"
TmpPathBySuffix == "tmp"
\* a save that writes the canonical path directly
TmpPathIsStatePath == StatePath
TmpPath == TmpPathBySuffix
Paths == {StatePath, TmpPathBySuffix}
\* the host process holding the long-lived manager, and a CLI process
Procs == {"tool", "cli"}

\* mapping helpers
Keys(f) == DOMAIN f
EmptyMap == [x \in {} |-> 0]
SeqToSet(s) == {s[i] : i \in 1..Len(s)}
SeqsUpTo(S, n) == UNION {[1..k -> S] : k \in 0..n}

(***************************************************************************)
(* The ledger: NetworkState, and the content of a ledger file.             *)
(* lastScanAt 0 is null; timestamps are readings of the clock.             *)
(***************************************************************************)
FreshState == [processedIds |-> EmptyMap, lastScanAt |-> 0, version |-> STATE_VERSION]

\* JSON values: null, a string (here a timestamp), a number, an object
JNull == [kind |-> "null", v |-> 0, members |-> {}]
JString(v) == [kind |-> "string", v |-> v, members |-> {}]
JNumber(v) == [kind |-> "number", v |-> v, members |-> {}]
JObject(members) == [kind |-> "object", v |-> 0, members |-> members]
hasMember(obj, key) == \E m \in obj.members : m.key = key
member(obj, key) == (CHOOSE m \in obj.members : m.key = key).value

\* JSON.stringify(this.state, null, 2); the variant leaves lastScanAt out
stringifyWithoutLastScan(state) ==
  JObject({ [key |-> "processedIds",
             value |-> JObject({[key |-> id, value |-> JString(state.processedIds[id])]
                                 : id \in Keys(state.processedIds)})],
            [key |-> "version", value |-> JNumber(state.version)] })
stringify(state) ==
  JObject({ [key |-> "processedIds",
             value |-> JObject({[key |-> id, value |-> JString(state.processedIds[id])]
                                 : id \in Keys(state.processedIds)})],
            [key |-> "lastScanAt",
             value |-> IF state.lastScanAt = 0 THEN JNull ELSE JString(state.lastScanAt)],
            [key |-> "version", value |-> JNumber(state.version)] })

\* JSON.parse of a ledger text, read as a NetworkState; a missing lastScanAt
\* reads as undefined (-1)
parse(text) ==
  [processedIds |-> [id \in {m.key : m \in member(text, "processedIds").members}
                       |-> member(member(text, "processedIds"), id).v],
   lastScanAt |-> IF ~hasMember(text, "lastScanAt") THEN -1
                  ELSE IF member(text, "lastScanAt").kind = "null" THEN 0
                  ELSE member(text, "lastScanAt").v,
   version |-> member(text, "version").v]

NoFile == [kind |-> "absent", text |-> JNull]
\* a file whose bytes are not a complete JSON text (a write in progress)
Partial == [kind |-> "partial", text |-> JNull]
JsonFile(state) == [kind |-> "json", text |-> stringify(state)]
\* the ledger a file holds: none in a missing or incomplete file
Led(content) == IF content.kind = "json" THEN parse(content.text) ELSE FreshState

\* NetworkStateManager.load; the variants never read the file, and take a
\* ledger of any version
loadAlwaysFresh(content) == FreshState
loadAnyVersion(content) ==
  IF content.kind = "json" /\ hasMember(content.text, "version")
  THEN parse(content.text)
  ELSE FreshState
load(content) ==
  IF /\ content.kind = "json"
     /\ hasMember(content.text, "version")
     /\ member(content.text, "version") = JNumber(STATE_VERSION)
  THEN parse(content.text)
  ELSE FreshState

\* NetworkStateManager.isProcessed; the variant tests the timestamps, so is never true
isProcessedAmongValues(state, resourceId) == FALSE
isProcessed(state, resourceId) == resourceId \in Keys(state.processedIds)

\* NetworkStateManager.markProcessed: the ledger after the loop, and the count
RECURSIVE markLoop(_, _, _, _)
\* a loop that stamps and counts every id of its argument
markLoopCountAll(pids, resourceIds, now, count) ==
  IF resourceIds = <<>> THEN [processedIds |-> pids, count |-> count]
  ELSE LET id == Head(resourceIds) IN
    markLoop([x \in Keys(pids) \cup {id} |-> IF x = id THEN now ELSE pids[x]],
             Tail(resourceIds), now, count + 1)
markLoop(pids, resourceIds, now, count) ==
  IF resourceIds = <<>> THEN [processedIds |-> pids, count |-> count]
  ELSE LET id == Head(resourceIds) IN
    IF id \in Keys(pids)
    THEN markLoop(pids, Tail(resourceIds), now, count)
    ELSE markLoop([x \in Keys(pids) \cup {id} |-> IF x = id THEN now ELSE pids[x]],
                  Tail(resourceIds), now, count + 1)

\* a markProcessed that builds a new mapping from its argument alone
markProcessedOverwrite(state, resourceIds, now) ==
  LET r == markLoop(EmptyMap, resourceIds, now, 0)
  IN [state |-> [state EXCEPT !.processedIds = r.processedIds], count |-> r.count]
\* a markProcessed that marks nothing
markProcessedNone(state, resourceIds, now) == [state |-> state, count |-> 0]
markProcessed(state, resourceIds, now) ==
  LET r == markLoop(state.processedIds, resourceIds, now, 0)
  IN [state |-> [state EXCEPT !.processedIds = r.processedIds], count |-> r.count]

\* NetworkStateManager.updateLastScan
updateLastScan(state, now) == [state EXCEPT !.lastScanAt = now]

\* NetworkStateManager.getProcessedCount
getProcessedCount(state) == Cardinality(Keys(state.processedIds))

(***************************************************************************)
(* The remote store's listing. Metadata values keep their JSON type in a   *)
(* tag: "bool:true" is the boolean, "str:true" the string, "absent" a      *)
(* missing key.                                                            *)
(***************************************************************************)
Sources == <<"slack", "notion">>
MetaCases ==
  { [ge |-> "absent",    status |-> "str:completed"],
    [ge |-> "bool:true", status |-> "str:completed"],
    [ge |-> "str:true",  status |-> "str:completed"],
    [ge |-> "str:false", status |-> "str:completed"],
    [ge |-> "absent",    status |-> "str:pending"],
    [ge |-> "absent",    status |-> "absent"] }

\* the record at place i of a listing: the source alternates with the place
RemoteRecord(i, id, meta) ==
  [resourceId |-> id, source |-> Sources[((i - 1) % 2) + 1],
   ge |-> meta.ge, status |-> meta.status]

Listings(metas, n) ==
  UNION { { [i \in 1..k |-> RemoteRecord(i, c[i][1], c[i][2])] : c \in [1..k -> Ids \X metas] }
          : k \in 0..n }

\* the store of the pipeline's behaviours: one record per id, each either
\* fully ingested or still pending
StoreListings ==
  { [i \in 1..2 |-> RemoteRecord(i, IF i = 1 THEN "m1" ELSE "m2", [ge |-> "absent", status |-> st[i]])]
    : st \in [1..2 -> {"str:completed", "str:pending"}] }

\* scanMemories, line 181: the record is itself a synced graph entity
isGraphEntityBooleanOnly(mem) == mem.ge = "bool:true"
isGraphEntity(mem) == mem.ge = "str:true" \/ mem.ge = "bool:true"

\* scanMemories, line 182
statusNotCompleted(mem) == mem.status # "str:completed"

\* scanMemories, line 207: the batch is full
batchFull(unprocessed, batchSize) == Len(unprocessed) >= batchSize

\* scanMemories, lines 184-205: the ScannedMemory of a record. idx is the
\* record's place in the listing, kept to tell two records of one id apart.
ScannedEmptySummary(mem, i, failing) ==
  [resourceId |-> mem.resourceId, source |-> mem.source,
   summary |-> IF mem.resourceId \in failing THEN "" ELSE "summary",
   idx |-> i]
Scanned(mem, i, failing) ==
  [resourceId |-> mem.resourceId, source |-> mem.source,
   summary |-> IF mem.resourceId \in failing THEN "(content unavailable)" ELSE "summary",
   idx |-> i]

\* scanMemories: the loop from place i of the listing. consumed is the last
\* place the loop read, fetched the places it called getMemory for, state
\* the manager's ledger when the loop ends, broke whether it ended by break.
RECURSIVE scanLoop(_, _, _, _, _, _, _)
scanLoop(listing, i, state, batchSize, failing, unprocessed, fetched) ==
  IF i > Len(listing)
  THEN [result |-> unprocessed, consumed |-> Len(listing), fetched |-> fetched,
        state |-> state, broke |-> FALSE]
  ELSE LET mem == listing[i] IN
    IF isProcessed(state, mem.resourceId)
      THEN scanLoop(listing, i + 1, state, batchSize, failing, unprocessed, fetched)
    ELSE IF isGraphEntity(mem)
      THEN scanLoop(listing, i + 1, state, batchSize, failing, unprocessed, fetched)
    ELSE IF statusNotCompleted(mem)
      THEN scanLoop(listing, i + 1, state, batchSize, failing, unprocessed, fetched)
    ELSE LET pushed == Append(unprocessed, Scanned(mem, i, failing)) IN
      IF batchFull(pushed, batchSize)
      THEN [result |-> pushed, consumed |-> i, fetched |-> Append(fetched, i),
            state |-> state, broke |-> TRUE]
      ELSE scanLoop(listing, i + 1, state, batchSize, failing, pushed, Append(fetched, i))

\* a scan that marks what it returns
scanMemoriesMarking(listing, state, batchSize, failing) ==
  LET r == scanLoop(listing, 1, state, batchSize, failing, <<>>, <<>>)
      ids == [i \in 1..Len(r.result) |-> r.result[i].resourceId]
  IN [r EXCEPT !.state = markProcessed(state, ids, 1).state]
scanMemories(listing, state, batchSize, failing) ==
  scanLoop(listing, 1, state, batchSize, failing, <<>>, <<>>)

\* formatScanResults: which of the two messages, and what it cites
formatScanResults(memories, processedCount, lastScan) ==
  IF Len(memories) = 0
  THEN [kind |-> "No unprocessed memories found", processed |-> processedCount,
        lastScan |-> lastScan, found |-> 0]
  ELSE [kind |-> "Found", processed |-> 0, lastScan |-> 0, found |-> Len(memories)]
NoMessage == [kind |-> "none", processed |-> 0, lastScan |-> 0, found |-> 0]

\* hyperspell_network_scan.execute, line 33: an absent parameter (-1 here)
\* takes the configured batch size
toolBatchSize(param) == IF param = -1 THEN DefaultBatchSize ELSE param
\* network scan CLI action, line 668: Number.parseInt(...) || 20
cliBatchSize(n) == IF n = 0 THEN DefaultBatchSize ELSE n

(***************************************************************************)
(* Markdown text. A text is the sequence of its lines (what split("\n")    *)
(* gives, so a text ending in a newline has an empty last line), a line is *)
(* a sequence of tokens. A token is a word, or a single-line JSON text     *)
(* (js), or a word with a number (a timestamp, a remote id).               *)
(***************************************************************************)
NoJs == [kind |-> "none", sm |-> EmptyMap, rel |-> <<>>]
T(w) == [w |-> w, n |-> 0, js |-> NoJs]
TN(w, k) == [w |-> w, n |-> k, js |-> NoJs]
\* JSON.stringify of a source-memories object and of a relationships array
jsonOfSources(sm) == [w |-> "json", n |-> 0, js |-> [kind |-> "obj", sm |-> sm, rel |-> <<>>]]
jsonOfList(rel) == [w |-> "json", n |-> 0, js |-> [kind |-> "arr", sm |-> EmptyMap, rel |-> rel]]

Word(w) == <<T(w)>>
EmptyText == << <<>> >>
\* no file at the path
NoText == <<>>

\* a + b on strings: the last line of a continues with the first of b
TextCat(a, b) == SubSeq(a, 1, Len(a) - 1) \o <<a[Len(a)] \o b[1]>> \o Tail(b)

\* a newline character inside a string value
NL == T("\\n")
\* the lines of a string that holds newline characters
RECURSIVE splitLines(_)
splitLines(line) ==
  LET nls == {i \in 1..Len(line) : line[i] = NL} IN
    IF nls = {} THEN <<line>>
    ELSE LET k == CHOOSE i \in nls : \A j \in nls : i <= j
         IN <<SubSeq(line, 1, k - 1)>> \o splitLines(SubSeq(line, k + 1, Len(line)))
\* parts.join("\n"), as the lines of the joined string
RECURSIVE joinLines(_)
joinLines(parts) ==
  IF parts = <<>> THEN <<>> ELSE splitLines(Head(parts)) \o joinLines(Tail(parts))

\* String.prototype.trim on a line
RECURSIVE trimStart(_)
trimStart(line) ==
  IF line # <<>> /\ Head(line).w = " " THEN trimStart(Tail(line)) ELSE line
RECURSIVE trimEnd(_)
trimEnd(line) ==
  IF line # <<>> /\ line[Len(line)].w = " " THEN trimEnd(SubSeq(line, 1, Len(line) - 1)) ELSE line
trim(line) == trimEnd(trimStart(line))

\* body.trim() is the empty string
blankText(text) == \A i \in 1..Len(text) : trim(text[i]) = <<>>

\* line.indexOf(":") + 1, 0 when the line has no colon.
Colons(line) == {i \in 1..Len(line) : line[i].w = ":"}
firstColon(line) == IF Colons(line) = {} THEN 0 ELSE CHOOSE i \in Colons(line) : \A j \in Colons(line) : i <= j

\* FRONTMATTER_REGEX /^---\n([\s\S]*?)\n---\n?/: the place of the line that
\* closes the frontmatter, 0 when the text does not match
Closers(text) == {k \in 3..Len(text) : text[k] # <<>> /\ text[k][1].w = "---"}
fmClose(text) ==
  IF Len(text) >= 3 /\ text[1] = Word("---") /\ Closers(text) # {}
  THEN CHOOSE k \in Closers(text) : \A j \in Closers(text) : k <= j
  ELSE 0
\* content.slice(match[0].length)
afterMatch(text, k) ==
  IF Len(text[k]) > 1 THEN <<Tail(text[k])>> \o SubSeq(text, k + 1, Len(text))
  ELSE IF k = Len(text) THEN EmptyText
  ELSE SubSeq(text, k + 1, Len(text))

\* a Record<string, string> in insertion order: a sequence of [key, value]
dictHas(d, key) == \E i \in 1..Len(d) : d[i].key = key
dictGet(d, key) == IF dictHas(d, key) THEN d[CHOOSE i \in 1..Len(d) : d[i].key = key].value ELSE <<>>
dictSet(d, key, value) ==
  IF dictHas(d, key)
  THEN [i \in 1..Len(d) |-> IF d[i].key = key THEN [key |-> key, value |-> value] ELSE d[i]]
  ELSE Append(d, [key |-> key, value |-> value])

\* parseFrontmatter, lines 28-35 of the sync module
RECURSIVE parseLines(_, _)
parseLines(lines, d) ==
  IF lines = <<>> THEN d
  ELSE LET line == Head(lines)
           c == firstColon(line)
       IN IF c >= 2
          THEN parseLines(Tail(lines),
                 dictSet(d, trim(SubSeq(line, 1, c - 1)), trim(SubSeq(line, c + 1, Len(line)))))
          ELSE parseLines(Tail(lines), d)

\* parseFrontmatter
parseFrontmatter(content) ==
  LET k == fmClose(content) IN
    IF k = 0 THEN [frontmatter |-> <<>>, body |-> content]
    ELSE [frontmatter |-> parseLines(SubSeq(content, 2, k - 1), <<>>),
          body |-> afterMatch(content, k)]

\* Object.entries(...).map(([k, v]) => `${k}: ${v}`)
entryLines(d) == [i \in 1..Len(d) |-> d[i].key \o <<T(":"), T(" ")>> \o d[i].value]

\* serializeFrontmatter
serializeFrontmatter(d) ==
  <<Word("---")>> \o (IF d = <<>> THEN EmptyText ELSE entryLines(d)) \o <<Word("---"), <<>>>>

\* readMarkdownFile: the upload's content is not empty, and frontmatter.hyperspell_id || null
\* a reading that takes a body of white space for content
readHasContentUntrimmed(content) == parseFrontmatter(content).body # EmptyText
readHasContent(content) == ~blankText(parseFrontmatter(content).body)
readHyperspellId(content) == dictGet(parseFrontmatter(content).frontmatter, Word("hyperspell_id"))

\* updateFrontmatterId, lines 74-80. The variant sets another key.
updateFrontmatterIdCamelKey(content, hyperspellId) ==
  LET p == parseFrontmatter(content)
  IN TextCat(serializeFrontmatter(dictSet(p.frontmatter, Word("hyperspellId"), hyperspellId)), p.body)
updateFrontmatterId(content, hyperspellId) ==
  LET p == parseFrontmatter(content)
  IN TextCat(serializeFrontmatter(dictSet(p.frontmatter, Word("hyperspell_id"), hyperspellId)), p.body)

(***************************************************************************)
(* writeEntity.                                                            *)
(***************************************************************************)
\* JSON.parse(val) does not throw
jsonParses(val) == Len(val) = 1 /\ val[1].js.kind # "none"

\* writeEntity, lines 241-260: the three fields read from the existing file
RECURSIVE existingLoop(_, _)
existingLoop(lines, acc) ==
  IF lines = <<>> THEN acc
  ELSE LET line == Head(lines)
           c == firstColon(line)
           key == trim(SubSeq(line, 1, c - 1))
           val == trim(SubSeq(line, c + 1, Len(line)))
       IN IF c < 2 THEN existingLoop(Tail(lines), acc)
          ELSE existingLoop(Tail(lines),
                 [hyperspellId |-> IF key = Word("hyperspell_id") THEN val ELSE acc.hyperspellId,
                  sourceMemories |-> IF key = Word("source_memories") /\ jsonParses(val)
                                     THEN val[1].js.sm ELSE acc.sourceMemories,
                  relationships |-> IF key = Word("relationships") /\ jsonParses(val)
                                    THEN val[1].js.rel ELSE acc.relationships])

NothingExisting == [hyperspellId |-> <<>>, sourceMemories |-> EmptyMap, relationships |-> <<>>]

\* the lines of a frontmatter whose source_memories or relationships value
\* JSON.parse rejects
unparsable(lines) ==
  {i \in 1..Len(lines) :
     LET c == firstColon(lines[i])
     IN /\ c >= 2
        /\ trim(SubSeq(lines[i], 1, c - 1)) \in {Word("source_memories"), Word("relationships")}
        /\ ~jsonParses(trim(SubSeq(lines[i], c + 1, Len(lines[i]))))}
\* a reading with one try around the whole loop: a value that does not
\* parse ends it, and nothing of the file is kept
readExistingOneTry(existing) ==
  IF existing = NoText \/ fmClose(existing) = 0 THEN NothingExisting
  ELSE IF unparsable(SubSeq(existing, 2, fmClose(existing) - 1)) # {} THEN NothingExisting
  ELSE existingLoop(SubSeq(existing, 2, fmClose(existing) - 1), NothingExisting)
readExisting(existing) ==
  IF existing = NoText \/ fmClose(existing) = 0 THEN NothingExisting
  ELSE existingLoop(SubSeq(existing, 2, fmClose(existing) - 1), NothingExisting)

\* [...new Set(list)]: first occurrences, in order
RECURSIVE dedup(_, _)
dedup(list, seen) ==
  IF list = <<>> THEN <<>>
  ELSE IF Head(list) \in seen THEN dedup(Tail(list), seen)
  ELSE <<Head(list)>> \o dedup(Tail(list), seen \cup {Head(list)})

\* writeEntity, lines 263-270
mergeSources(existing, new) ==
  [s \in Keys(existing) \cup Keys(new) |->
     IF s \in Keys(new)
     THEN dedup((IF s \in Keys(existing) THEN existing[s] ELSE <<>>) \o new[s], {})
     ELSE existing[s]]

\* writeEntity, lines 273-275
mergeRelationships(existing, new) == dedup(existing \o new, {})

\* params.type.slice(0, -1): the type without its last character
singular(type) ==
  CASE type = "people" -> "peopl"
    [] type = "projects" -> "project"
    [] type = "organizations" -> "organization"
    [] type = "topics" -> "topic"

\* writeEntity, lines 278-291: the frontmatter
entityFrontmatter(params, ex, sources, rels, now) ==
  LET fm1 == << [key |-> Word("title"), value |-> params.name],
                [key |-> Word("type"), value |-> Word(singular(params.type))],
                [key |-> Word("graph_entity"), value |-> Word("true")],
                [key |-> Word("source_memories"), value |-> <<jsonOfSources(sources)>>],
                [key |-> Word("last_extracted"), value |-> <<TN("ts", now)>>] >>
      fm2 == IF ex.hyperspellId # <<>> THEN dictSet(fm1, Word("hyperspell_id"), ex.hyperspellId) ELSE fm1
      fm3 == IF rels # <<>> THEN dictSet(fm2, Word("relationships"), <<jsonOfList(rels)>>) ELSE fm2
      fm4 == IF params.email # <<>> THEN dictSet(fm3, Word("email"), params.email) ELSE fm3
      fm5 == IF params.phone # <<>> THEN dictSet(fm4, Word("phone"), params.phone) ELSE fm4
  IN IF params.domain # <<>> THEN dictSet(fm5, Word("domain"), params.domain) ELSE fm5

\* writeEntity, lines 294-316: the body parts, each a text. An edge is kept
\* whole in its rendered line.
entityBody(params, rels) ==
  LET contact == (IF params.email # <<>> THEN <<<<T("-"), T(" "), T("Email"), T(":"), T(" ")>> \o params.email>> ELSE <<>>)
              \o (IF params.phone # <<>> THEN <<<<T("-"), T(" "), T("Phone"), T(":"), T(" ")>> \o params.phone>> ELSE <<>>)
              \o (IF params.domain # <<>> THEN <<<<T("-"), T(" "), T("Domain"), T(":"), T(" ")>> \o params.domain>> ELSE <<>>)
  IN << <<T("#"), T(" ")>> \o params.name, <<>> >>
     \o params.description
     \o (IF contact # <<>> THEN << <<>>, <<T("##"), T(" "), T("Contact")>>, <<>> >> \o contact ELSE <<>>)
     \o (IF rels # <<>>
         THEN << <<>>, <<T("##"), T(" "), T("Relationships")>>, <<>> >>
              \o [i \in 1..Len(rels) |-> <<T("-"), T(" "), T(rels[i])>>]
         ELSE <<>>)

\* a writer that keeps the email of the existing file when the call gives none
writeEntityKeepingEmail(existing, params, now) ==
  LET ex == readExisting(existing)
      kept == [params EXCEPT !.email = IF @ # <<>> \/ existing = NoText THEN @
                                       ELSE dictGet(parseFrontmatter(existing).frontmatter, Word("email"))]
      sources == mergeSources(ex.sourceMemories, params.sourceMemories)
      rels == mergeRelationships(ex.relationships, params.relationships)
      fm == entityFrontmatter(kept, ex, sources, rels, now)
  IN joinLines(<<Word("---")>> \o entryLines(fm) \o <<Word("---")>> \o entityBody(kept, rels))
     \o <<<<>>>>
\* writeEntity: the text written at the target path
writeEntity(existing, params, now) ==
  LET ex == readExisting(existing)
      sources == mergeSources(ex.sourceMemories, params.sourceMemories)
      rels == mergeRelationships(ex.relationships, params.relationships)
      fm == entityFrontmatter(params, ex, sources, rels, now)
  IN joinLines(<<Word("---")>> \o entryLines(fm) \o <<Word("---")>> \o entityBody(params, rels))
     \o <<<<>>>>

(***************************************************************************)
(* State.                                                                  *)
(***************************************************************************)
(***************************************************************************)
(* slugify. A string is the sequence of its characters.                    *)
(***************************************************************************)
\* the characters tried: letters of both cases, a digit, a space, a hyphen,
\* a punctuation mark and a letter outside ASCII
SlugChars == {"A", "a", "1", " ", "-", "!", "E-acute"}
\* String.prototype.toLowerCase
toLowerCase(str) ==
  [i \in 1..Len(str) |-> T(CASE str[i].w = "A" -> "a"
                             [] str[i].w = "E-acute" -> "e-acute"
                             [] OTHER -> str[i].w)]
\* replace(/[^a-z0-9]+/g, "-"): every run of other characters becomes a hyphen
RECURSIVE hyphenate(_, _)
hyphenate(str, inRun) ==
  IF str = <<>> THEN <<>>
  ELSE IF Head(str).w \in {"a", "1"} THEN <<Head(str)>> \o hyphenate(Tail(str), FALSE)
  ELSE IF inRun THEN hyphenate(Tail(str), TRUE)
  ELSE <<T("-")>> \o hyphenate(Tail(str), TRUE)
\* replace(/^-|-$/, ""), without the g flag: the first match only
stripFirstHyphen(str) ==
  IF str # <<>> /\ Head(str).w = "-" THEN Tail(str)
  ELSE IF str # <<>> /\ str[Len(str)].w = "-" THEN SubSeq(str, 1, Len(str) - 1)
  ELSE str
\* replace(/^-|-$/g, ""): a hyphen at the start and a hyphen at the end
stripHyphens(str) ==
  LET a == IF str # <<>> /\ Head(str).w = "-" THEN Tail(str) ELSE str
  IN IF a # <<>> /\ a[Len(a)].w = "-" THEN SubSeq(a, 1, Len(a) - 1) ELSE a
slugify(name) == stripHyphens(hyphenate(trim(toLowerCase(name)), FALSE))

VARIABLES
  remote,     \* the remote store's listing, in its page order
  failing,    \* the ids whose getMemory call fails
  fs,         \* the ledger's files: path -> content
  proc,       \* per process: its position, its manager and the call in progress
  calls,      \* calls[t]: the ids of the completeMemories call that read clock t
  committed,  \* ids of the completeMemories calls that returned after a successful save
  out,        \* the last ledger or scan operation and what it returned
  md,         \* the markdown files of the memory directory: path -> text
  sync,       \* the syncMarkdownFile call waiting on its upload
  uploads,    \* the addMemory calls made by sync, in order, each with the text
              \* sync read and the text it left in the file
  writes,     \* the number of writeEntity calls so far (the clock of last_extracted)
  eout,       \* the last entity or sync operation and what it returned
  slug        \* the string slugify was given, and what it returned

ledgerVars == <<remote, failing, fs, proc, calls, committed, out>>
entityVars == <<md, sync, uploads, writes, eout, slug>>
vars == <<remote, failing, fs, proc, calls, committed, out, md, sync, uploads, writes, eout, slug>>

\* no manager: the process is not running
NoProc == [pc |-> "down", state |-> FreshState, loaded |-> {}, marked |-> {},
           ids |-> <<>>, newCount |-> 0]
\* new NetworkStateManager(workspaceDir): loaded and marked record what the
\* manager loaded and every id later handed to its markProcessed
Constructed(content) ==
  [pc |-> "idle", state |-> load(content), loaded |-> Keys(load(content).processedIds),
   marked |-> {}, ids |-> <<>>, newCount |-> 0]

NoOut == [op |-> "none", p |-> "none", batchSize |-> 0, result |-> <<>>, consumed |-> 0,
          fetched |-> <<>>, ids |-> <<>>, newCount |-> 0, totalCount |-> 0, saved |-> FALSE,
          text |-> NoMessage, threw |-> FALSE, raised |-> FALSE]

Now == Len(calls)
Saving(p) == proc[p].pc \in {"write", "rename"}

(***************************************************************************)
(* Operations.                                                             *)
(***************************************************************************)
\* an execute without try and catch: the error leaves the handler
executeThrows(prefix) == [threw |-> TRUE, text |-> "none"]
\* the catch clause of a tool's execute, tools.ts lines 41-46, 86-89 and
\* 107-110: the error becomes the text the handler returns
execute(prefix) == [threw |-> FALSE, text |-> prefix]

\* hyperspell_network_scan.execute on the long-lived manager
ToolScan(param) ==
  /\ proc["tool"].pc = "idle"
  /\ \E r \in {scanMemories(remote, proc["tool"].state, toolBatchSize(param), failing)} :
        /\ out' = [NoOut EXCEPT !.op = "scan", !.p = "tool",
                                !.batchSize = toolBatchSize(param),
                                !.result = r.result, !.consumed = r.consumed,
                                !.fetched = r.fetched,
                                !.totalCount = getProcessedCount(r.state),
                                !.text = formatScanResults(r.result, getProcessedCount(r.state),
                                                           r.state.lastScanAt)]
        /\ proc' = [proc EXCEPT !["tool"].state = r.state]
  /\ UNCHANGED <<remote, failing, fs, calls, committed, entityVars>>

\* network scan CLI action: a fresh manager on the workspace, then the scan
CliScan(n) ==
  /\ proc["cli"].pc = "down"
  /\ \E r \in {scanMemories(remote, Constructed(fs[StatePath]).state, cliBatchSize(n), failing)} :
        out' = [NoOut EXCEPT !.op = "scan", !.p = "cli", !.batchSize = cliBatchSize(n),
                             !.result = r.result, !.consumed = r.consumed,
                             !.fetched = r.fetched,
                             !.totalCount = getProcessedCount(r.state),
                             !.text = formatScanResults(r.result, getProcessedCount(r.state),
                                                        r.state.lastScanAt)]
  /\ UNCHANGED <<remote, failing, fs, proc, calls, committed, entityVars>>

\* a scan whose listing throws after yielding k records: scanMemories throws
\* when the loop asks for the next one, and the handler reports "Scan failed"
ScanFailed(p, k) ==
  /\ k \in 0..Len(remote)
  /\ \/ p = "tool" /\ proc[p].pc = "idle"
     \/ p = "cli" /\ proc[p].pc = "down"
  /\ LET batchSize == IF p = "tool" THEN toolBatchSize(-1) ELSE cliBatchSize(0)
         m == IF p = "cli" THEN Constructed(fs[StatePath]) ELSE proc[p]
         r == scanMemories(SubSeq(remote, 1, k), m.state, batchSize, failing)
     IN /\ ~r.broke
        /\ proc' = IF p = "tool" THEN [proc EXCEPT ![p].state = r.state] ELSE proc
  /\ out' = [NoOut EXCEPT !.op = "scanFailed", !.p = p,
                          !.threw = IF p = "tool" THEN execute("Scan failed: ").threw ELSE FALSE,
                          !.text = [NoMessage EXCEPT !.kind = IF p = "tool"
                                                               THEN execute("Scan failed: ").text
                                                               ELSE "Scan failed: "]]
  /\ UNCHANGED <<remote, failing, fs, calls, committed, entityVars>>

\* completeMemories, lines 329-330, on manager m at clock reading now.
\* The variant is the ledger that save serialises when markProcessed runs
\* only after save.
completeSaveBeforeMark(m, memoryIds, now) ==
  LET r == markProcessed(m.state, memoryIds, now)
  IN [m EXCEPT !.state = updateLastScan(m.state, now),
               !.marked = @ \cup SeqToSet(memoryIds),
               !.ids = memoryIds, !.newCount = r.count]
completeInMemory(m, memoryIds, now) ==
  LET r == markProcessed(m.state, memoryIds, now)
  IN [m EXCEPT !.state = updateLastScan(r.state, now),
               !.marked = @ \cup SeqToSet(memoryIds),
               !.ids = memoryIds, !.newCount = r.count]

\* completeMemories up to the start of save's writeFileSync: the temporary
\* file is open and holds an incomplete text. One cycle runs at a time per
\* workspace, so no other process is inside save.
CompleteStart(p, memoryIds) ==
  /\ Now < MaxClock
  /\ \A q \in Procs : ~Saving(q)
  /\ \/ p = "tool" /\ proc[p].pc = "idle"
     \/ p = "cli" /\ proc[p].pc = "down"
  /\ LET m == IF p = "cli" THEN Constructed(fs[StatePath]) ELSE proc[p]
     IN proc' = [proc EXCEPT ![p] = [completeInMemory(m, memoryIds, Now + 1)
                                       EXCEPT !.pc = "write"]]
  /\ calls' = Append(calls, SeqToSet(memoryIds))
  /\ fs' = [fs EXCEPT ![TmpPath] = Partial]
  /\ out' = [NoOut EXCEPT !.op = "completing", !.p = p, !.ids = memoryIds]
  /\ UNCHANGED <<remote, failing, committed, entityVars>>

\* save, line 44: writeFileSync returns, the whole text is in the file
SaveWritten(p) ==
  /\ proc[p].pc = "write"
  /\ fs' = [fs EXCEPT ![TmpPath] = JsonFile(proc[p].state)]
  /\ proc' = [proc EXCEPT ![p].pc = "rename"]
  /\ out' = [NoOut EXCEPT !.op = "written", !.p = p, !.ids = proc[p].ids]
  /\ UNCHANGED <<remote, failing, calls, committed, entityVars>>

\* what a finished command leaves of its process: the host keeps its manager
AfterCall(p) == IF p = "cli" THEN NoProc ELSE [proc[p] EXCEPT !.pc = "idle", !.ids = <<>>]

\* save, line 45, and the return of completeMemories
SaveRenamed(p) ==
  /\ proc[p].pc = "rename"
  /\ fs' = [fs EXCEPT ![StatePath] = fs[TmpPath], ![TmpPath] = NoFile]
  /\ proc' = [proc EXCEPT ![p] = AfterCall(p)]
  /\ committed' = committed \cup SeqToSet(proc[p].ids)
  /\ out' = [NoOut EXCEPT !.op = "complete", !.p = p, !.ids = proc[p].ids,
                          !.newCount = proc[p].newCount,
                          !.totalCount = getProcessedCount(proc[p].state),
                          !.saved = TRUE]
  /\ UNCHANGED <<remote, failing, calls, entityVars>>

\* a save that, failing, puts the manager back to the ledger of the file
SaveFailedForgets(p, unlinked) ==
  /\ Saving(p)
  /\ fs' = [fs EXCEPT ![TmpPath] = IF unlinked THEN NoFile ELSE @]
  /\ proc' = [proc EXCEPT ![p] = IF p = "cli" THEN NoProc
                                 ELSE [AfterCall(p) EXCEPT !.state = load(fs[StatePath])]]
  /\ out' = [NoOut EXCEPT !.op = "complete", !.p = p, !.ids = proc[p].ids,
                          !.newCount = proc[p].newCount,
                          !.totalCount = getProcessedCount(proc[p].state),
                          !.saved = FALSE]
  /\ UNCHANGED <<remote, failing, calls, committed, entityVars>>
\* save, lines 46-49: writeFileSync or renameSync throws; unlinkSync removes
\* the temporary file (unlinked) or throws in its turn, and completeMemories
\* returns all the same
SaveFailed(p, unlinked) ==
  /\ Saving(p)
  /\ fs' = [fs EXCEPT ![TmpPath] = IF unlinked THEN NoFile ELSE @]
  /\ proc' = [proc EXCEPT ![p] = AfterCall(p)]
  /\ out' = [NoOut EXCEPT !.op = "complete", !.p = p, !.ids = proc[p].ids,
                          !.newCount = proc[p].newCount,
                          !.totalCount = getProcessedCount(proc[p].state),
                          !.saved = FALSE]
  /\ UNCHANGED <<remote, failing, calls, committed, entityVars>>

\* hyperspell_network_complete.execute when markProcessed throws at line 329,
\* its argument not being a list: the ledger is as it was
CompleteFailed ==
  /\ proc["tool"].pc = "idle"
  /\ out' = [NoOut EXCEPT !.op = "completeFailed", !.p = "tool",
                          !.threw = execute("Complete failed: ").threw,
                          !.text = [NoMessage EXCEPT !.kind = execute("Complete failed: ").text]]
  /\ UNCHANGED <<remote, failing, fs, proc, calls, committed, entityVars>>

\* the process is killed: its memory is lost, the files stay as they are
Kill(p) ==
  /\ proc[p].pc # "down"
  /\ proc' = [proc EXCEPT ![p] = NoProc]
  /\ out' = [NoOut EXCEPT !.op = "kill", !.p = p]
  /\ UNCHANGED <<remote, failing, fs, calls, committed, entityVars>>

\* registerNetworkTools, line 19, when the host starts again
Register ==
  /\ proc["tool"].pc = "down"
  /\ proc' = [proc EXCEPT !["tool"] = Constructed(fs[StatePath])]
  /\ out' = [NoOut EXCEPT !.op = "register", !.p = "tool"]
  /\ UNCHANGED <<remote, failing, fs, calls, committed, entityVars>>

(***************************************************************************)
(* Entity files and their sync.                                            *)
(***************************************************************************)
EntityPath == "memory/people/alice-chen.md"
NotePath == "memory/notes.md"
MdPaths == {EntityPath, NotePath}
TodoPath == "memory/todo.md"
AllMdPaths == MdPaths \cup {TodoPath}

\* a path as its segments; a segment is a name and its extension
Name(stem, ext) == [stem |-> stem, ext |-> ext]
MemoryDir == Name("memory", "")
Segs(path) ==
  CASE path = EntityPath -> <<MemoryDir, Name("people", ""), Name("alice-chen", ".md")>>
    [] path = NotePath -> <<MemoryDir, Name("notes", ".md")>>
    [] path = TodoPath -> <<MemoryDir, Name("todo", ".md")>>
basename(path) == Segs(path)[Len(Segs(path))]

\* fs.readdirSync(memoryDir): the names of the entries directly in memory/
readdirSync(files) == {Segs(p)[2] : p \in {q \in AllMdPaths : files[q] # NoText}}

\* getMemoryFiles: the entries of memory/ whose name ends with ".md", each
\* joined to the directory
getMemoryFiles(files) ==
  {p \in AllMdPaths : \E file \in readdirSync(files) :
                         file.ext = ".md" /\ Segs(p) = <<MemoryDir, file>>}

\* the orders in which readdirSync may list a set of files
Orders(S) == {s \in SeqsUpTo(S, Cardinality(S)) :
                Len(s) = Cardinality(S) /\ \A i, j \in 1..Len(s) : s[i] = s[j] => i = j}

\* sync: the syncMarkdownFile call in progress, and the syncAllMemoryFiles
\* run around it (all): the files left, the counters, the files passed so far
NoSync == [pc |-> "idle", path |-> "none", passed |-> <<>>,
           all |-> FALSE, queue |-> <<>>, synced |-> 0, failed |-> 0,
           errors |-> <<>>, visited |-> <<>>]
NoEout == [op |-> "none", path |-> "none", success |-> FALSE, resourceId |-> <<>>,
           rewrite |-> "none", error |-> "none",
           synced |-> 0, failed |-> 0, errors |-> <<>>, visited |-> <<>>, threw |-> FALSE,
           returned |-> "none"]

\* a call of syncMarkdownFile(path): any file outside a run, the next file in one
Callable(path) == sync.all => sync.queue # <<>> /\ path = Head(sync.queue)

\* a loop that ends at the first file that fails
AfterSyncStopping(path, success, error) ==
  IF sync.all
  THEN [sync EXCEPT !.pc = "idle", !.path = "none", !.passed = <<>>,
                    !.queue = IF success THEN Tail(@) ELSE <<>>,
                    !.synced = IF success THEN @ + 1 ELSE @,
                    !.failed = IF success THEN @ ELSE @ + 1,
                    !.errors = IF success THEN @
                               ELSE Append(@, [file |-> basename(path), error |-> error]),
                    !.visited = IF path = sync.path THEN @ ELSE Append(@, path)]
  ELSE NoSync
\* syncAllMemoryFiles, lines 161-170: the loop's bookkeeping for one result
AfterSync(path, success, error) ==
  IF sync.all
  THEN [sync EXCEPT !.pc = "idle", !.path = "none", !.passed = <<>>,
                    !.queue = Tail(@),
                    !.synced = IF success THEN @ + 1 ELSE @,
                    !.failed = IF success THEN @ ELSE @ + 1,
                    !.errors = IF success THEN @
                               ELSE Append(@, [file |-> basename(path), error |-> error]),
                    !.visited = IF path = sync.path THEN @ ELSE Append(@, path)]
  ELSE NoSync

\* hyperspell_network_write.execute: writeEntity on the entity's file
WriteEntity(params) ==
  /\ writes < MaxWrites
  /\ md' = [md EXCEPT ![EntityPath] = writeEntity(md[EntityPath], params, writes + 1)]
  /\ writes' = writes + 1
  /\ eout' = [NoEout EXCEPT !.op = "write", !.path = EntityPath, !.success = TRUE]
  /\ UNCHANGED <<sync, uploads, ledgerVars, slug>>

\* hyperspell_network_write.execute when mkdirSync, readFileSync or
\* writeFileSync throws in writeEntity (lines 234, 242, 322): no file changes
WriteFailed(params) ==
  /\ eout' = [NoEout EXCEPT !.op = "write", !.path = EntityPath, !.success = FALSE,
                            !.threw = execute("Write failed: ").threw,
                            !.error = execute("Write failed: ").text]
  /\ UNCHANGED <<md, writes, sync, uploads, ledgerVars, slug>>

\* syncMarkdownFile, lines 116-123: the file cannot be read, or has no content
SyncRejected(path) ==
  /\ sync.pc = "idle"
  /\ Callable(path)
  /\ md[path] = NoText \/ ~readHasContent(md[path])
  /\ LET error == IF md[path] = NoText THEN "Failed to read file" ELSE "File has no content"
     IN /\ eout' = [NoEout EXCEPT !.op = "sync", !.path = path, !.error = error]
        /\ sync' = AfterSync(path, FALSE, error)
  /\ UNCHANGED <<md, uploads, writes, ledgerVars, slug>>

\* syncMarkdownFile, lines 116-134: the file is read and addMemory is called
SyncStart(path) ==
  /\ sync.pc = "idle"
  /\ Callable(path)
  /\ Len(uploads) < MaxUploads
  /\ md[path] # NoText /\ readHasContent(md[path])
  /\ sync' = [sync EXCEPT !.pc = "uploading", !.path = path,
                          !.passed = readHyperspellId(md[path]),
                          !.visited = IF sync.all THEN Append(@, path) ELSE @]
  /\ uploads' = Append(uploads, [path |-> path, passed |-> readHyperspellId(md[path]),
                                  returned |-> <<>>, status |-> "pending", rewrite |-> "none",
                                  read |-> md[path], left |-> NoText, by |-> "sync"])
  /\ eout' = [NoEout EXCEPT !.op = "syncStart", !.path = path]
  /\ UNCHANGED <<md, writes, ledgerVars, slug>>

\* the addMemory calls that have not returned: by is "sync" for the call the
\* sync variable follows, "handler" for the calls of file_changed handlers
\* that run beside it
InFlight(by) == {i \in 1..Len(uploads) : uploads[i].status = "pending" /\ uploads[i].by = by}
Awaited == CHOOSE i \in InFlight("sync") : TRUE

\* the remote store's answer to addMemory: the id passed, or a new one
Creates == {i \in 1..Len(uploads) : uploads[i].passed = <<>> /\ uploads[i].status = "ok"}
remoteId(passed) == IF passed # <<>> THEN passed ELSE <<TN("r", Cardinality(Creates) + 1)>>

\* syncMarkdownFile, lines 130-133, through addMemory, lines 190-193: the
\* metadata sent with the text; addMemory's own openclaw_source comes last
uploadMetadata(path) == [file_path |-> path, openclaw_source |-> "command"]

\* the graph_entity field of a stored record's metadata, as the listing gives it
graphEntityOf(metadata) ==
  IF "graph_entity" \in DOMAIN metadata THEN metadata.graph_entity ELSE "absent"

\* the record the remote store keeps for an upload; it is ingested later
Uploaded(path, id) ==
  [resourceId |-> id, source |-> "vault",
   ge |-> graphEntityOf(uploadMetadata(path)), status |-> "str:pending"]

\* memories.add with a resource_id replaces the record of that id
stored(records, rec) ==
  IF \E i \in 1..Len(records) : records[i].resourceId = rec.resourceId
  THEN [i \in 1..Len(records) |->
          IF records[i].resourceId = rec.resourceId THEN rec ELSE records[i]]
  ELSE Append(records, rec)

\* syncMarkdownFile, lines 136-141: addMemory returned. rewriteOk is whether
\* updateFrontmatterId could read and write the file.
SyncUploaded(rewriteOk) ==
  /\ sync.pc = "uploading"
  /\ LET id == remoteId(sync.passed)
         changed == id # sync.passed
     IN /\ md' = IF changed /\ rewriteOk
                 THEN [md EXCEPT ![sync.path] = updateFrontmatterId(md[sync.path], id)]
                 ELSE md
        /\ uploads' = [uploads EXCEPT ![Awaited] =
                         [@ EXCEPT !.returned = id, !.status = "ok",
                                   !.left = md'[sync.path],
                                   !.rewrite = IF ~changed THEN "none"
                                               ELSE IF rewriteOk THEN "ok" ELSE "failed"]]
        /\ eout' = [NoEout EXCEPT !.op = "sync", !.path = sync.path, !.success = TRUE,
                      !.resourceId = id,
                      !.rewrite = IF ~changed THEN "none"
                                  ELSE IF rewriteOk THEN "ok" ELSE "failed"]
        /\ remote' = stored(remote, Uploaded(sync.path, id))
  /\ sync' = AfterSync(sync.path, TRUE, "none")
  /\ UNCHANGED <<writes, failing, fs, proc, calls, committed, out, slug>>

\* the remote store finishes ingesting a record
Indexed(i) ==
  /\ i \in 1..Len(remote)
  /\ remote[i].status = "str:pending"
  /\ remote' = [remote EXCEPT ![i].status = "str:completed"]
  /\ UNCHANGED <<failing, fs, proc, calls, committed, out, entityVars>>

\* syncMarkdownFile, lines 142-146: addMemory threw
SyncUploadFailed ==
  /\ sync.pc = "uploading"
  /\ uploads' = [uploads EXCEPT ![Awaited] = [@ EXCEPT !.status = "failed"]]
  /\ eout' = [NoEout EXCEPT !.op = "sync", !.path = sync.path, !.error = "upload failed"]
  /\ sync' = AfterSync(sync.path, FALSE, "upload failed")
  /\ UNCHANGED <<md, writes, ledgerVars, slug>>

\* paths of file_changed events besides the memory files: a file in a
\* directory beside memory/ whose name begins with "memory", a file elsewhere
\* in the workspace, and a file in memory/ that is not markdown
SiblingPath == "memory-old/x.md"
OutsidePath == "docs/x.md"
TextPath == "memory/notes.txt"
EventPaths == AllMdPaths \cup {SiblingPath, OutsidePath, TextPath}

\* a path as a string, relative to the workspace: the sequence of its pieces
pathText(path) ==
  CASE path = EntityPath -> <<"memory", "/", "people", "/", "alice-chen", ".md">>
    [] path = NotePath -> <<"memory", "/", "notes", ".md">>
    [] path = TodoPath -> <<"memory", "/", "todo", ".md">>
    [] path = SiblingPath -> <<"memory", "-old", "/", "x", ".md">>
    [] path = OutsidePath -> <<"docs", "/", "x", ".md">>
    [] path = TextPath -> <<"memory", "/", "notes", ".txt">>
\* path.join(workspaceDir, "memory"): no separator at its end
memoryDir == <<"memory">>
\* String.prototype.startsWith and endsWith
startsWith(str, prefix) == Len(str) >= Len(prefix) /\ SubSeq(str, 1, Len(prefix)) = prefix
endsWith(str, suffix) ==
  Len(str) >= Len(suffix) /\ SubSeq(str, Len(str) - Len(suffix) + 1, Len(str)) = suffix

\* buildFileSyncHandler, lines 15-21: the paths the handler passes on
handles(path) == startsWith(pathText(path), memoryDir) /\ endsWith(pathText(path), <<".md">>)

\* the file_changed handler, lines 19-22: the path is not one it handles
FileChangedIgnored(path) ==
  /\ ~handles(path)
  /\ eout' = [NoEout EXCEPT !.op = "fileChanged", !.path = path]
  /\ UNCHANGED <<md, sync, uploads, writes, ledgerVars, slug>>

\* the file_changed handler, lines 15-33, when syncMarkdownFile returns at
\* once: the file cannot be read, or has no content. It logs and returns.
FileChangedRejected(path) ==
  /\ handles(path)
  /\ md[path] = NoText \/ ~readHasContent(md[path])
  /\ eout' = [NoEout EXCEPT !.op = "fileChanged", !.path = path]
  /\ UNCHANGED <<md, sync, uploads, writes, ledgerVars, slug>>

\* the file_changed handler, lines 15-27, and syncMarkdownFile, lines
\* 116-134, beside whatever sync is running: the file is read and addMemory
\* is called
FileChanged(path) ==
  /\ handles(path)
  /\ Len(uploads) < MaxUploads
  /\ md[path] # NoText /\ readHasContent(md[path])
  /\ uploads' = Append(uploads, [path |-> path, passed |-> readHyperspellId(md[path]),
                                  returned |-> <<>>, status |-> "pending", rewrite |-> "none",
                                  read |-> md[path], left |-> NoText, by |-> "handler"])
  /\ eout' = [NoEout EXCEPT !.op = "syncStart", !.path = path]
  /\ UNCHANGED <<md, sync, writes, ledgerVars, slug>>

\* syncMarkdownFile, lines 136-141, in a file_changed handler: addMemory
\* returned for the call at place i; the handler logs and returns
FileChangedUploaded(i, rewriteOk) ==
  /\ i \in InFlight("handler")
  /\ LET path == uploads[i].path
         id == remoteId(uploads[i].passed)
         changed == id # uploads[i].passed
     IN /\ md' = IF changed /\ rewriteOk
                 THEN [md EXCEPT ![path] = updateFrontmatterId(md[path], id)]
                 ELSE md
        /\ uploads' = [uploads EXCEPT ![i] =
                         [@ EXCEPT !.returned = id, !.status = "ok",
                                   !.left = md'[path],
                                   !.rewrite = IF ~changed THEN "none"
                                               ELSE IF rewriteOk THEN "ok" ELSE "failed"]]
        /\ eout' = [NoEout EXCEPT !.op = "fileChanged", !.path = path]
        /\ remote' = stored(remote, Uploaded(path, id))
  /\ UNCHANGED <<sync, writes, failing, fs, proc, calls, committed, out, slug>>

\* syncMarkdownFile, lines 142-146, in a file_changed handler: addMemory
\* threw; the handler logs and returns
FileChangedUploadFailed(i) ==
  /\ i \in InFlight("handler")
  /\ uploads' = [uploads EXCEPT ![i] = [@ EXCEPT !.status = "failed"]]
  /\ eout' = [NoEout EXCEPT !.op = "fileChanged", !.path = uploads[i].path,
                            !.error = "upload failed"]
  /\ UNCHANGED <<md, sync, writes, ledgerVars, slug>>

\* a handler without try and catch: the error reaches the runtime
handlerThrows == [threw |-> TRUE, returned |-> "none"]
\* the catch clause of an event handler, auto-context.ts lines 71-74 and
\* emotional-state.ts lines 49-52 and 92-95: it logs and returns nothing
handlerCatch == [threw |-> FALSE, returned |-> "none"]

\* what a remote call does: it returns a value, returns nothing, or throws
Answers == {"value", "nothing", "throws"}

\* buildAutoContextHandler on before_agent_start: longEnough is whether the
\* prompt has five characters, answer what client.search does
AutoContext(longEnough, answer) ==
  /\ eout' = IF ~longEnough THEN [NoEout EXCEPT !.op = "autoContext"]
             ELSE IF answer = "throws"
             THEN [NoEout EXCEPT !.op = "autoContext", !.error = "auto-context failed",
                                 !.threw = handlerCatch.threw,
                                 !.returned = handlerCatch.returned]
             ELSE [NoEout EXCEPT !.op = "autoContext", !.success = TRUE,
                                 !.returned = IF answer = "value" THEN "prependContext"
                                              ELSE "none"]
  /\ UNCHANGED <<md, sync, uploads, writes, ledgerVars, slug>>

\* buildEmotionalStateFetchHandler on before_agent_start: answer is what
\* client.getEmotionalState does
EmotionalStateFetch(answer) ==
  /\ eout' = IF answer = "throws"
             THEN [NoEout EXCEPT !.op = "emotionalFetch",
                                 !.error = "emotional-context fetch failed",
                                 !.threw = handlerCatch.threw,
                                 !.returned = handlerCatch.returned]
             ELSE [NoEout EXCEPT !.op = "emotionalFetch", !.success = TRUE,
                                 !.returned = IF answer = "value" THEN "prependContext"
                                              ELSE "none"]
  /\ UNCHANGED <<md, sync, uploads, writes, ledgerVars, slug>>

\* buildEmotionalStateStoreHandler on agent_end: eligible is whether the run
\* succeeded with a long enough conversation, answer what
\* client.storeEmotionalState does
EmotionalStateStore(eligible, answer) ==
  /\ answer # "nothing"
  /\ eout' = IF ~eligible THEN [NoEout EXCEPT !.op = "emotionalStore"]
             ELSE IF answer = "throws"
             THEN [NoEout EXCEPT !.op = "emotionalStore",
                                 !.error = "emotional-state store failed",
                                 !.threw = handlerCatch.threw,
                                 !.returned = handlerCatch.returned]
             ELSE [NoEout EXCEPT !.op = "emotionalStore", !.success = TRUE]
  /\ UNCHANGED <<md, sync, uploads, writes, ledgerVars, slug>>

\* syncAllMemoryFiles, lines 156-159: the files are discovered, in the order
\* the directory lists them
SyncAllStart(files) ==
  /\ sync.pc = "idle" /\ ~sync.all
  /\ files \in Orders(getMemoryFiles(md))
  /\ Len(uploads) + Len(files) <= MaxUploads
  /\ sync' = [NoSync EXCEPT !.all = TRUE, !.queue = files]
  /\ eout' = [NoEout EXCEPT !.op = "syncAllStart"]
  /\ UNCHANGED <<md, uploads, writes, ledgerVars, slug>>

\* syncAllMemoryFiles, line 172: the loop is over
SyncAllReturn ==
  /\ sync.pc = "idle" /\ sync.all /\ sync.queue = <<>>
  /\ eout' = [NoEout EXCEPT !.op = "syncAll", !.synced = sync.synced, !.failed = sync.failed,
                            !.errors = sync.errors, !.visited = sync.visited]
  /\ sync' = NoSync
  /\ UNCHANGED <<md, uploads, writes, ledgerVars, slug>>

(***************************************************************************)
(* Specifications.                                                         *)
(***************************************************************************)
BatchParams == -1..MaxBatch
IdLists == SeqsUpTo(Ids, MaxIdList)

\* slugify not called yet
NoSlug == [name |-> <<>>, called |-> FALSE, slug |-> <<>>]

\* no markdown file, no sync
InitEntityIdle ==
  /\ md = [f \in AllMdPaths |-> NoText]
  /\ sync = NoSync
  /\ uploads = <<>>
  /\ writes = 0
  /\ eout = NoEout
  /\ slug = NoSlug

\* the pipeline on a fresh workspace: the plugin is registered, no ledger file
Init ==
  /\ remote \in StoreListings
  /\ failing = {}
  /\ fs = [f \in Paths |-> NoFile]
  /\ proc = [p \in Procs |-> IF p = "tool" THEN Constructed(NoFile) ELSE NoProc]
  /\ calls = <<>>
  /\ committed = {}
  /\ out = NoOut
  /\ InitEntityIdle

Next ==
  \/ ToolScan(-1)
  \/ CliScan(1)
  \/ \E p \in Procs, k \in {0, 1} : ScanFailed(p, k)
  \/ \E p \in Procs, ids \in IdLists : CompleteStart(p, ids)
  \/ \E p \in Procs : SaveWritten(p)
  \/ \E p \in Procs : SaveRenamed(p)
  \/ \E p \in Procs, unlinked \in BOOLEAN : SaveFailed(p, unlinked)
  \/ \E p \in Procs : Kill(p)
  \/ Register

Spec == Init /\ [][Next]_vars

\* the scanner on every listing and every ledger: the ledger is the one a
\* completeMemories call on the ids of done has saved
InitScan ==
  /\ remote \in Listings(MetaCases, MaxListing)
  /\ failing \in SUBSET Ids
  /\ \E done \in IdLists :
       LET m == completeInMemory(Constructed(NoFile), done, 1) IN
         IF done = <<>>
         THEN /\ fs = [f \in Paths |-> NoFile]
              /\ proc = [p \in Procs |-> IF p = "tool" THEN Constructed(NoFile) ELSE NoProc]
              /\ calls = <<>>
              /\ committed = {}
         ELSE /\ fs = [f \in Paths |-> IF f = StatePath THEN JsonFile(m.state) ELSE NoFile]
              /\ proc = [p \in Procs |-> IF p = "tool" THEN Constructed(JsonFile(m.state)) ELSE NoProc]
              /\ calls = <<SeqToSet(done)>>
              /\ committed = SeqToSet(done)
  /\ out = NoOut
  /\ InitEntityIdle

NextScan ==
  \/ \E b \in BatchParams : ToolScan(b)
  \/ \E n \in 0..MaxBatch : CliScan(n)

SpecScan == InitScan /\ [][NextScan]_vars

\* the writeEntity calls tried: a first mention, a mention with repeated,
\* old and new ids and edges, a mention that brings only edges, and a
\* mention whose name is the two lines "Alice Chen" and "---"
Param(name, sources, rels, email) ==
  [type |-> "people", name |-> name, description |-> <<<<T("Engineer")>>>>,
   relationships |-> rels, sourceMemories |-> sources,
   email |-> email, phone |-> <<>>, domain |-> <<>>]
WriteParams ==
  { Param(<<T("Alice"), T(" "), T("Chen")>>, [s \in {"slack"} |-> <<"A">>], <<>>, <<>>),
    Param(<<T("Dr"), T(":"), T(" "), T("Chen"), T(" ")>>,
          [s \in {"slack", "google_mail"} |-> IF s = "slack" THEN <<"B", "A", "B">> ELSE <<"C">>],
          <<"works-at:organizations/acme">>, <<T("alice@acme.com")>>),
    Param(<<T("Alice"), T(" "), T("Chen")>>, EmptyMap,
          <<"knows:people/bob", "works-at:organizations/acme", "knows:people/bob">>, <<>>),
    Param(<<T("Alice"), T(" "), T("Chen"), NL, T("---")>>, [s \in {"slack"} |-> <<"D">>], <<>>, <<>>) }

\* a note a user wrote: without frontmatter, and with one
NoteValues ==
  { << <<T("#"), T(" "), T("Notes")>>, <<T("buy"), T(" "), T("milk")>>, <<>> >>,
    << Word("---"), <<T("title"), T(":"), T(" "), T("Notes")>>, Word("---"),
       <<T("buy"), T(" "), T("milk")>>, <<>> >> }

\* the entity writer and the sync on a workspace with one note
InitEntity ==
  /\ remote = <<>>
  /\ failing = {}
  /\ fs = [f \in Paths |-> NoFile]
  /\ proc = [p \in Procs |-> IF p = "tool" THEN Constructed(NoFile) ELSE NoProc]
  /\ calls = <<>>
  /\ committed = {}
  /\ out = NoOut
  /\ md \in {[f \in AllMdPaths |-> IF f = NotePath THEN note ELSE NoText] : note \in NoteValues}
  /\ sync = NoSync
  /\ uploads = <<>>
  /\ writes = 0
  /\ eout = NoEout
  /\ slug = NoSlug

NextEntity ==
  \/ \E params \in WriteParams : WriteEntity(params)
  \/ \E path \in MdPaths : SyncRejected(path)
  \/ \E path \in MdPaths : SyncStart(path)
  \/ \E rewriteOk \in BOOLEAN : SyncUploaded(rewriteOk)
  \/ SyncUploadFailed

SpecEntity == InitEntity /\ [][NextEntity]_vars

\* the ledger files a manager may find: none, a truncated text, the text
\* "null", a ledger without version, and ledgers an older, the current and a
\* newer version of the plugin saved
FoundState == [processedIds |-> [id \in {"m1"} |-> 1], lastScanAt |-> 1, version |-> STATE_VERSION]
FoundFiles ==
  { NoFile, Partial, [kind |-> "json", text |-> JNull],
    [kind |-> "json",
     text |-> JObject({m \in stringify(FoundState).members : m.key # "version"})] }
  \cup { JsonFile([FoundState EXCEPT !.version = v])
           : v \in {STATE_VERSION - 1, STATE_VERSION, STATE_VERSION + 1} }

\* the host and the CLI starting on a workspace with any of these files
InitLoad ==
  /\ remote \in {l \in StoreListings : \A i \in 1..Len(l) : ~statusNotCompleted(l[i])}
  /\ failing = {}
  /\ \E found \in FoundFiles : fs = [f \in Paths |-> IF f = StatePath THEN found ELSE NoFile]
  /\ proc = [p \in Procs |-> NoProc]
  /\ calls = <<>>
  /\ committed = {}
  /\ out = NoOut
  /\ InitEntityIdle

NextLoad ==
  \/ Register
  \/ \E p \in Procs : Kill(p)
  \/ ToolScan(1)
  \/ CliScan(1)
  \/ \E p \in Procs, ids \in IdLists : CompleteStart(p, ids)
  \/ \E p \in Procs : SaveWritten(p)
  \/ \E p \in Procs : SaveRenamed(p)
  \/ \E p \in Procs, unlinked \in BOOLEAN : SaveFailed(p, unlinked)

SpecLoad == InitLoad /\ [][NextLoad]_vars

\* the file-change hook syncing the files of a workspace after extraction,
\* the remote store ingesting what it was sent, and the scans that follow
InitSyncScan ==
  /\ remote = <<>>
  /\ failing = {}
  /\ fs = [f \in Paths |-> NoFile]
  /\ proc = [p \in Procs |-> IF p = "tool" THEN Constructed(NoFile) ELSE NoProc]
  /\ calls = <<>>
  /\ committed = {}
  /\ out = NoOut
  /\ \E params \in WriteParams, note \in NoteValues :
       md = [f \in AllMdPaths |-> IF f = EntityPath THEN writeEntity(NoText, params, 1)
                                  ELSE IF f = NotePath THEN note ELSE NoText]
  /\ sync = NoSync
  /\ uploads = <<>>
  /\ writes = 0
  /\ eout = NoEout
  /\ slug = NoSlug

NextSyncScan ==
  \/ \E path \in MdPaths : SyncStart(path)
  \/ \E rewriteOk \in BOOLEAN : SyncUploaded(rewriteOk)
  \/ SyncUploadFailed
  \/ \E i \in 1..MaxUploads : Indexed(i)
  \/ \E b \in 1..MaxBatch : ToolScan(b)
  \/ \E n \in 1..MaxBatch : CliScan(n)

SpecSyncScan == InitSyncScan /\ [][NextSyncScan]_vars

\* slugify on every string of up to MaxSlugLen characters, and on its result
InitSlug ==
  /\ remote = <<>>
  /\ failing = {}
  /\ fs = [f \in Paths |-> NoFile]
  /\ proc = [p \in Procs |-> NoProc]
  /\ calls = <<>>
  /\ committed = {}
  /\ out = NoOut
  /\ md = [f \in AllMdPaths |-> NoText]
  /\ sync = NoSync
  /\ uploads = <<>>
  /\ writes = 0
  /\ eout = NoEout
  /\ \E name \in SeqsUpTo({T(c) : c \in SlugChars}, MaxSlugLen) :
       slug = [NoSlug EXCEPT !.name = name]

Slugify ==
  /\ slug' = [name |-> IF slug.called THEN slug.slug ELSE slug.name,
              called |-> TRUE,
              slug |-> slugify(IF slug.called THEN slug.slug ELSE slug.name)]
  /\ UNCHANGED <<ledgerVars, md, sync, uploads, writes, eout>>

NextSlug == Slugify

SpecSlug == InitSlug /\ [][NextSlug]_vars

\* a todo file a user wrote: with content, with frontmatter only, and with
\* frontmatter and white space
TodoValues ==
  { << <<T("call"), T(" "), T("Bob")>>, <<>> >>,
    << Word("---"), <<T("title"), T(":"), T(" "), T("Todo")>>, Word("---"), <<>> >>,
    << Word("---"), <<T("title"), T(":"), T(" "), T("Todo")>>, Word("---"),
       <<T(" ")>>, <<T(" "), T(" ")>>, <<>> >> }

\* `network sync` on a workspace after extraction: the entity file as
\* writeEntity left it, the notes and the todo file as a user left them
InitSyncAll ==
  /\ remote = <<>>
  /\ failing = {}
  /\ fs = [f \in Paths |-> NoFile]
  /\ proc = [p \in Procs |-> IF p = "tool" THEN Constructed(NoFile) ELSE NoProc]
  /\ calls = <<>>
  /\ committed = {}
  /\ out = NoOut
  /\ \E entity \in {NoText} \cup {writeEntity(NoText, params, 1) : params \in WriteParams},
        note \in {NoText} \cup NoteValues, todo \in {NoText} \cup TodoValues :
       md = [f \in AllMdPaths |-> IF f = EntityPath THEN entity
                                  ELSE IF f = NotePath THEN note ELSE todo]
  /\ sync = NoSync
  /\ uploads = <<>>
  /\ writes = 0
  /\ eout = NoEout
  /\ slug = NoSlug

NextSyncAll ==
  \/ \E files \in SeqsUpTo(AllMdPaths, Cardinality(AllMdPaths)) : SyncAllStart(files)
  \/ \E path \in AllMdPaths : SyncRejected(path)
  \/ \E path \in AllMdPaths : SyncStart(path)
  \/ \E rewriteOk \in BOOLEAN : SyncUploaded(rewriteOk)
  \/ SyncUploadFailed
  \/ SyncAllReturn

SpecSyncAll == InitSyncAll /\ [][NextSyncAll]_vars

\* the scan -> complete loop of the extraction prompt on a fresh workspace,
\* with storage and listing that work: the driver runs either the CLI
\* commands (the plugin's tools are not registered) or the tools, completes
\* after every non-empty scan exactly the ids it returned, and stops at the
\* first empty scan
InitLoop ==
  /\ remote \in Listings(MetaCases, MaxListing)
  /\ failing = {}
  /\ fs = [f \in Paths |-> NoFile]
  /\ \E driver \in Procs :
       proc = [p \in Procs |-> IF p = "tool" /\ driver = "tool" THEN Constructed(NoFile) ELSE NoProc]
  /\ calls = <<>>
  /\ committed = {}
  /\ out = NoOut
  /\ InitEntityIdle

\* the process the driver runs its commands in
Driver == IF proc["tool"].pc = "down" THEN "cli" ELSE "tool"

LoopScan(b) ==
  /\ out.op \in {"none", "complete"}
  /\ IF Driver = "tool" THEN ToolScan(b) ELSE CliScan(b)

LoopComplete ==
  /\ out.op = "scan" /\ out.result # <<>>
  /\ CompleteStart(Driver, [i \in 1..Len(out.result) |-> out.result[i].resourceId])

NextLoop ==
  \/ \E b \in 1..MaxBatch : LoopScan(b)
  \/ LoopComplete
  \/ \E p \in Procs : SaveWritten(p)
  \/ \E p \in Procs : SaveRenamed(p)

SpecLoop == InitLoop /\ [][NextLoop]_vars

\* every command the driver starts runs to its end, and the driver goes on
SpecLoopFair == SpecLoop /\ WF_vars(NextLoop)

(***************************************************************************)
(* Properties.                                                             *)
(***************************************************************************)
\* the ledger of the manager that ran the scan in out
ScanLedger == IF out.p = "tool" THEN proc["tool"].state ELSE load(fs[StatePath])
ResultIds == {out.result[i].resourceId : i \in 1..Len(out.result)}
LedgerFile == fs[StatePath]

\* C1: a scan never returns a record whose resourceId is a key of
\* processedIds of the ledger manager it was given.
C1_ScanSkipsProcessed ==
  out.op = "scan" => ResultIds \cap Keys(ScanLedger.processedIds) = {}

\* a scan that returned a record and passed over a listed, processed one
C1_Witness ==
  /\ out.op = "scan"
  /\ Len(out.result) >= 1
  /\ \E j \in 1..Len(remote) :
        /\ remote[j].resourceId \in Keys(ScanLedger.processedIds)
        /\ remote[j].ge = "absent" /\ remote[j].status = "str:completed"
        /\ j < out.result[1].idx

SourcesOf(text) ==
  LET v == dictGet(parseFrontmatter(text).frontmatter, Word("source_memories"))
  IN IF jsonParses(v) THEN v[1].js.sm ELSE EmptyMap
RelationsOf(text) ==
  LET v == dictGet(parseFrontmatter(text).frontmatter, Word("relationships"))
  IN IF jsonParses(v) THEN v[1].js.rel ELSE <<>>
IdOf(text) == dictGet(parseFrontmatter(text).frontmatter, Word("hyperspell_id"))
NoDuplicates(list) == Cardinality(SeqToSet(list)) = Len(list)

\* C3: over the writes to one entity file, the ids under each source of
\* source_memories and the relationship strings only grow: whatever the file
\* held before a step it holds after it, and no list holds an element twice.
C3_MergeMonotone ==
  [][ LET oldS == SourcesOf(md[EntityPath])
          newS == SourcesOf(md'[EntityPath])
          oldR == RelationsOf(md[EntityPath])
          newR == RelationsOf(md'[EntityPath])
      IN md'[EntityPath] # md[EntityPath] =>
         /\ \A s \in Keys(oldS) :
               /\ s \in Keys(newS)
               /\ SeqToSet(oldS[s]) \subseteq SeqToSet(newS[s])
         /\ SeqToSet(oldR) \subseteq SeqToSet(newR)
         /\ \A s \in Keys(newS) : NoDuplicates(newS[s])
         /\ NoDuplicates(newR)
    ]_vars

\* C4: a writeEntity call on a file whose frontmatter has a hyperspell_id
\* leaves that hyperspell_id in the rewritten file, whatever its parameters.
C4_WritePreservesId ==
  [][ writes' = writes + 1 =>
        LET oldId == IdOf(md[EntityPath])
        IN oldId # <<>> => IdOf(md'[EntityPath]) = oldId ]_vars

C6_SaveAtomic ==
  [][ /\ LedgerFile'.kind # "partial"
      /\ LedgerFile' # LedgerFile =>
            \E p \in Procs : proc[p].pc = "rename" /\ LedgerFile' = JsonFile(proc[p].state)
      /\ out'.op = "kill" =>
            Keys(Led(LedgerFile).processedIds) \subseteq Keys(Led(LedgerFile').processedIds)
    ]_vars

\* a process was killed while writing the temporary file, after an earlier
\* save had committed ids, and the ledger file still holds them
C6_Witness ==
  /\ out.op = "kill"
  /\ fs[TmpPathBySuffix].kind = "partial"
  /\ committed # {}
  /\ LedgerFile.kind = "json"
  /\ committed \subseteq Keys(Led(LedgerFile).processedIds)

\* C7: once completeMemories(ids) has returned after a successful save, no
\* later scan of the workspace returns one of those ids, whichever manager
\* instance performs the scan.
C7_NoDoubleProcessing ==
  out.op = "scan" => ResultIds \cap committed = {}

\* C8: a ledger file that holds the lastScanAt of a completeMemories call
\* holds the ids of that call, and the file a call has just written holds
\* that call's lastScanAt.
C8_MarkBeforeSave ==
  /\ LedgerFile.kind = "json" /\ Led(LedgerFile).lastScanAt > 0 =>
        calls[Led(LedgerFile).lastScanAt] \subseteq Keys(Led(LedgerFile).processedIds)
  /\ out.op = "complete" /\ out.saved =>
        /\ LedgerFile.kind = "json"
        /\ Led(LedgerFile).lastScanAt = Now
        /\ SeqToSet(out.ids) \subseteq Keys(Led(LedgerFile).processedIds)

\* the second call's save wrote a file with ids the first call had not marked
C8_Witness ==
  /\ out.op = "complete" /\ out.saved /\ out.newCount >= 1
  /\ Now = 2
  /\ Led(LedgerFile).lastScanAt = 2
  /\ ~(calls[2] \subseteq calls[1])

\* C9: for every batchSize >= 0 the scan returns at most batchSize records
\* and reads the listing no further than the record that fills the batch.
C9_AtMostBatchSize ==
  out.op = "scan" /\ out.batchSize >= 0 =>
    /\ Len(out.result) <= out.batchSize
    /\ out.batchSize > 0 /\ Len(out.result) = out.batchSize =>
          out.consumed = out.result[out.batchSize].idx

\* C10: a record is returned only if its graph_entity is neither the boolean
\* true nor the string "true" and its status is exactly "completed".
C10_ScanEligibility ==
  out.op = "scan" =>
    \A i \in 1..Len(out.result) :
      LET mem == remote[out.result[i].idx] IN
        /\ mem.resourceId = out.result[i].resourceId
        /\ mem.ge \notin {"bool:true", "str:true"}
        /\ mem.status = "str:completed"

\* a scan returned a record listed after an unprocessed record flagged with
\* the string "true"
C10_Witness ==
  /\ out.op = "scan"
  /\ Len(out.result) >= 1
  /\ \E j \in 1..Len(remote) :
        /\ remote[j].ge = "str:true"
        /\ remote[j].resourceId \notin Keys(ScanLedger.processedIds)
        /\ j < out.result[1].idx

\* C11: a scan, whether it returns records, returns none or fails, leaves
\* every manager's ledger and the ledger files as they were; the ids of a
\* live manager's processedIds grow only in a completeMemories call.
C11_ScanLeavesLedger ==
  [][ /\ out'.op \in {"scan", "scanFailed"} =>
            /\ fs' = fs
            /\ \A p \in Procs : proc'[p].state = proc[p].state
      /\ \A p \in Procs :
            /\ proc[p].pc # "down" /\ proc'[p].pc # "down"
            /\ Keys(proc'[p].state.processedIds) # Keys(proc[p].state.processedIds)
            => out'.op = "completing"
    ]_vars

\* a scan on a ledger holding m1 returned m2, and the file still holds
\* exactly m1
C11_Witness ==
  /\ out.op = "scan" /\ out.p = "tool"
  /\ ResultIds = {"m2"}
  /\ Keys(proc["tool"].state.processedIds) = {"m1"}
  /\ LedgerFile.kind = "json" /\ Keys(Led(LedgerFile).processedIds) = {"m1"}

\* C12: a scan with failing fetches returns the records the same scan
\* returns when every fetch succeeds, in the same order, each the same but
\* for the summary "(content unavailable)" of a record whose fetch failed.
C12_FetchFailureKeepsRecord ==
  out.op = "scan" =>
    LET ok == scanMemories(remote, ScanLedger, out.batchSize, {}).result IN
      /\ Len(out.result) = Len(ok)
      /\ \A i \in 1..Len(ok) :
            out.result[i] =
              IF ok[i].resourceId \in failing
              THEN [ok[i] EXCEPT !.summary = "(content unavailable)"]
              ELSE ok[i]

\* the fetch of the first returned record failed and the second was
\* returned with its summary
C12_Witness ==
  /\ out.op = "scan"
  /\ Len(out.result) = 2
  /\ out.result[1].resourceId \in failing
  /\ out.result[1].summary = "(content unavailable)"
  /\ out.result[2].resourceId \notin failing
  /\ out.result[2].summary = "summary"

\* the ids of the remote records that pass the graph_entity and status filters
EligibleIds ==
  {remote[i].resourceId : i \in {j \in 1..Len(remote) :
      ~isGraphEntity(remote[j]) /\ ~statusNotCompleted(remote[j])}}
CompletedIds == UNION SeqToSet(calls)

\* C13: in the loop, a scan returns none of the ids completed before it;
\* once every eligible id has been completed, the scan returns no record and
\* the message is "No unprocessed memories found" with the ledger's count of
\* processed ids and its lastScanAt.
C13_RescanReturnsNone ==
  out.op = "scan" =>
    /\ ResultIds \cap CompletedIds = {}
    /\ calls # <<>> /\ EligibleIds \subseteq CompletedIds =>
          /\ out.result = <<>>
          /\ out.text.kind = "No unprocessed memories found"
          /\ out.text.processed = Cardinality(CompletedIds)
          /\ out.text.lastScan = Now

\* a first scan returned both records, they were completed, and the
\* re-scan found nothing and cited two processed ids
C13_Witness ==
  /\ out.op = "scan" /\ out.result = <<>>
  /\ calls = <<{"m1", "m2"}>>
  /\ EligibleIds = {"m1", "m2"}
  /\ out.text.kind = "No unprocessed memories found"
  /\ out.text.processed = 2 /\ out.text.lastScan = 1

\* C14: the loop reaches a scan that returns no record, and at such a scan
\* every eligible id of the store is in processedIds.
LoopDone == out.op = "scan" /\ out.result = <<>>
Times(path, visited) == Cardinality({i \in 1..Len(visited) : visited[i] = path})

\* C15: when syncAllMemoryFiles returns, every markdown file under the memory
\* directory, the entity files in memory/people included, has been passed to
\* syncMarkdownFile exactly once
C15_SyncAllUploadsEveryFile ==
  eout.op = "syncAll" =>
    \A path \in AllMdPaths : md[path] # NoText => Times(path, eout.visited) = 1

\* the uploads of a file whose frontmatter says graph_entity: true
EntityUploads ==
  {i \in 1..Len(uploads) :
     /\ uploads[i].status = "ok"
     /\ dictGet(parseFrontmatter(uploads[i].read).frontmatter, Word("graph_entity")) = Word("true")}

\* C16: a scan never returns the remote record created by syncing a file
\* whose frontmatter has graph_entity: true
C16_SyncedEntityNotScanned ==
  out.op = "scan" => \A i \in EntityUploads : uploads[i].returned \notin ResultIds

C18_SaveLoadRoundTrip ==
  [][\A p \in Procs : out'.op = "complete" /\ out'.saved /\ out'.p = p =>
       LET saved == proc[p].state
           fresh == Constructed(fs'[StatePath]).state
       IN /\ fresh.processedIds = saved.processedIds
          /\ fresh.lastScanAt = saved.lastScanAt]_vars

\* a save has succeeded on a ledger of two ids marked at different times
C18_Witness ==
  /\ out.op = "complete" /\ out.saved
  /\ LET fresh == Constructed(LedgerFile).state
     IN /\ Keys(fresh.processedIds) = {"m1", "m2"}
        /\ fresh.processedIds["m1"] # fresh.processedIds["m2"]
        /\ fresh.lastScanAt = 2

\* the ledger file is absent, is not a JSON text, or carries no version or
\* another one than the current
Unusable(content) ==
  \/ content.kind # "json"
  \/ ~hasMember(content.text, "version")
  \/ member(content.text, "version") # JNumber(STATE_VERSION)

\* C19: a manager constructed on an absent, unparseable or other-version
\* ledger file is running and holds the empty ledger of the current version:
\* no processed id, lastScanAt null; a CLI scan on such a file reports none
C19_LoadRecovers ==
  /\ out.op = "register" /\ Unusable(LedgerFile) =>
        /\ proc["tool"].pc = "idle"
        /\ proc["tool"].state.processedIds = EmptyMap
        /\ proc["tool"].state.lastScanAt = 0
        /\ proc["tool"].state.version = STATE_VERSION
  /\ out.op = "scan" /\ out.p = "cli" /\ Unusable(LedgerFile) => out.totalCount = 0

\* the host started on a ledger file that a newer version saved with one id
C19_Witness ==
  /\ out.op = "register"
  /\ LedgerFile = JsonFile([FoundState EXCEPT !.version = STATE_VERSION + 1])
  /\ proc["tool"].pc = "idle"

\* C20: a save that fails returns to its caller, leaves the ledger file as it
\* was, leaves the temporary file removed or, when the removal fails too, as
\* it was, and keeps the manager's ledger; the next save that succeeds on the
\* manager writes every id it loaded or marked, those of failed saves included
C20_FailedSaveKeepsMarks ==
  [][\A p \in Procs :
       /\ out'.op = "complete" /\ ~out'.saved /\ out'.p = p =>
             /\ fs'[StatePath] = fs[StatePath]
             /\ fs'[TmpPath] \in {NoFile, fs[TmpPath]}
             /\ out'.newCount = proc[p].newCount
             /\ p = "tool" => proc'[p].pc = "idle" /\ proc'[p].state = proc[p].state
       /\ out'.op = "complete" /\ out'.saved /\ out'.p = p =>
             proc[p].loaded \cup proc[p].marked \subseteq Keys(Led(fs'[StatePath]).processedIds)
    ]_vars

\* the host's manager, started on no usable ledger, marked m1 in a call whose
\* save failed and m2 in a call whose save succeeded: the file holds both
C20_Witness ==
  /\ out.op = "complete" /\ out.saved /\ out.p = "tool"
  /\ calls = <<{"m1"}, {"m2"}>> /\ committed = {"m2"}
  /\ proc["tool"].loaded = {}
  /\ LedgerFile.kind = "json" /\ Keys(Led(LedgerFile).processedIds) = {"m1", "m2"}

\* C21: syncMarkdownFile called on a file whose body, the frontmatter removed
\* and the rest trimmed, is empty returns success false with an error, calls
\* no upload and leaves the file as it was
C21_EmptyBodyRejected ==
  [][\A path \in AllMdPaths :
       /\ sync.pc = "idle" /\ eout'.path = path /\ eout'.op \in {"sync", "syncStart"}
       /\ md[path] # NoText /\ blankText(parseFrontmatter(md[path]).body)
       => /\ eout'.op = "sync" /\ ~eout'.success /\ eout'.error = "File has no content"
          /\ sync'.pc = "idle" /\ uploads' = uploads
          /\ md' = md]_vars

\* the sync of a file of frontmatter and white space has been refused
C21_Witness ==
  /\ eout.op = "sync" /\ eout.error = "File has no content"
  /\ md[eout.path] # NoText
  /\ parseFrontmatter(md[eout.path]).body # EmptyText

\* C22: syncAllMemoryFiles goes through every file it discovered whatever
\* failed before: each result adds one to synced or one to failed and, when
\* it fails, one entry to errors, and the loop goes on; at the return
\* synced + failed is the number of files discovered, each passed once, and
\* errors holds one entry per failed file
C22_SyncAllCountsEveryFile ==
  [][/\ sync.all /\ eout'.op = "sync" =>
          /\ sync'.all /\ sync'.queue = Tail(sync.queue)
          /\ eout'.success =>
                /\ sync'.synced = sync.synced + 1 /\ sync'.failed = sync.failed
                /\ sync'.errors = sync.errors
          /\ ~eout'.success =>
                /\ sync'.synced = sync.synced /\ sync'.failed = sync.failed + 1
                /\ sync'.errors = Append(sync.errors, [file |-> basename(eout'.path),
                                                        error |-> eout'.error])
     /\ eout'.op = "syncAll" =>
          /\ eout'.synced + eout'.failed = Cardinality(getMemoryFiles(md))
          /\ SeqToSet(eout'.visited) = getMemoryFiles(md)
          /\ Len(eout'.visited) = Cardinality(getMemoryFiles(md))
          /\ Len(eout'.errors) = eout'.failed
          /\ \A i, j \in 1..Len(eout'.errors) :
                eout'.errors[i].file = eout'.errors[j].file => i = j
    ]_vars

\* a run of two files has returned: the upload of the first failed, the
\* second was synced
C22_Witness ==
  /\ eout.op = "syncAll" /\ eout.synced = 1 /\ eout.failed = 1
  /\ Len(eout.visited) = 2
  /\ eout.errors = <<[file |-> basename(eout.visited[1]), error |-> "upload failed"]>>
  /\ uploads[Len(uploads)].path = eout.visited[2] /\ uploads[Len(uploads)].status = "ok"

\* a string of lowercase letters, digits and single hyphens that neither
\* starts nor ends with a hyphen
Canonical(str) ==
  /\ \A i \in 1..Len(str) : str[i].w \in {"a", "1", "-"}
  /\ \A i \in 1..Len(str) - 1 : ~(str[i].w = "-" /\ str[i + 1].w = "-")
  /\ str # <<>> => str[1].w # "-" /\ str[Len(str)].w # "-"

\* C23: what slugify returns is canonical, and slugify returns it unchanged
C23_SlugifyIdempotent ==
  slug.called => Canonical(slug.slug) /\ slugify(slug.slug) = slug.slug

\* slugify was given " A-" or the like: a string it had to lower, trim and
\* strip, and that gave a slug of two characters or more
C23_Witness ==
  /\ slug.called /\ slug.name # slug.slug
  /\ Len(slug.slug) >= 2
  /\ \E i \in 1..Len(slug.slug) : slug.slug[i].w = "-"

\* C24: the file a writeEntity call leaves has frontmatter with title, type,
\* graph_entity: true, source_memories and last_extracted; it has
\* hyperspell_id exactly when the file it replaced had one, and relationships
\* exactly when the merged relationships are not empty.
C24_WrittenFrontmatterFields ==
  [][ writes' = writes + 1 =>
        LET fm == parseFrontmatter(md'[EntityPath]).frontmatter
            prev == md[EntityPath]
        IN /\ \A k \in {"title", "type", "source_memories", "last_extracted"} : dictHas(fm, Word(k))
           /\ dictGet(fm, Word("graph_entity")) = Word("true")
           /\ dictHas(fm, Word("hyperspell_id")) <=> IdOf(prev) # <<>>
           /\ \A params \in WriteParams :
                md'[EntityPath] = writeEntity(prev, params, writes') =>
                  (dictHas(fm, Word("relationships"))
                     <=> mergeRelationships(readExisting(prev).relationships, params.relationships) # <<>>)
    ]_vars

\* C25: the type field of the file a writeEntity call leaves is the singular
\* of the entity type: person for people, project for projects, organization
\* for organizations, topic for topics.
C25_TypeIsSingular ==
  [][ writes' = writes + 1 =>
        \A params \in WriteParams :
          md'[EntityPath] = writeEntity(md[EntityPath], params, writes') =>
            dictGet(parseFrontmatter(md'[EntityPath]).frontmatter, Word("type"))
              = Word(CASE params.type = "people" -> "person"
                       [] params.type = "projects" -> "project"
                       [] params.type = "organizations" -> "organization"
                       [] params.type = "topics" -> "topic")
    ]_vars


\* the parameters of the write tool's calls: a person with one source memory
ToolParams == {p \in WriteParams : p.email = <<>> /\ p.relationships = <<>> /\ NL \notin SeqToSet(p.name)}
\* the three network tools of the host, each call succeeding or failing
NextTools ==
  \/ ToolScan(-1)
  \/ \E k \in {0, 1} : ScanFailed("tool", k)
  \/ \E ids \in IdLists : CompleteStart("tool", ids)
  \/ SaveWritten("tool")
  \/ SaveRenamed("tool")
  \/ \E unlinked \in BOOLEAN : SaveFailed("tool", unlinked)
  \/ CompleteFailed
  \/ \E params \in ToolParams : WriteEntity(params)
  \/ \E params \in ToolParams : WriteFailed(params)

SpecTools == Init /\ [][NextTools]_vars

\* C27: a call of hyperspell_network_scan, hyperspell_network_write or
\* hyperspell_network_complete in which scanMemories, writeEntity or
\* completeMemories fails does not throw: it returns the text "Scan failed: ",
\* "Write failed: " or "Complete failed: " followed by the message.
C27_ToolsReturnFailureText ==
  /\ ~out.threw /\ ~eout.threw
  /\ out.op = "scanFailed" /\ out.p = "tool" => out.text.kind = "Scan failed: "
  /\ out.op = "completeFailed" /\ out.p = "tool" => out.text.kind = "Complete failed: "
  /\ eout.op = "write" /\ ~eout.success => eout.error = "Write failed: "
C27_Witness ==
  /\ out.op = "completeFailed" /\ out.text.kind = "Complete failed: "
  /\ eout.op = "write" /\ ~eout.success /\ eout.error = "Write failed: "
  /\ writes = 1


\* the host starting on a workspace with a notes file: syncMemoriesOnStartup
\* runs while file_changed, before_agent_start and agent_end events arrive
NextStartup ==
  \/ \E files \in SeqsUpTo(AllMdPaths, Cardinality(AllMdPaths)) : SyncAllStart(files)
  \/ \E path \in AllMdPaths : SyncRejected(path)
  \/ \E path \in AllMdPaths : SyncStart(path)
  \/ \E rewriteOk \in BOOLEAN : SyncUploaded(rewriteOk)
  \/ SyncUploadFailed
  \/ SyncAllReturn
  \/ \E path \in AllMdPaths : FileChangedRejected(path)
  \/ \E path \in AllMdPaths : FileChanged(path)
  \/ \E i \in 1..MaxUploads, rewriteOk \in BOOLEAN : FileChangedUploaded(i, rewriteOk)
  \/ \E i \in 1..MaxUploads : FileChangedUploadFailed(i)
  \/ \E longEnough \in BOOLEAN, answer \in Answers : AutoContext(longEnough, answer)
  \/ \E answer \in Answers : EmotionalStateFetch(answer)
  \/ \E eligible \in BOOLEAN, answer \in Answers : EmotionalStateStore(eligible, answer)

SpecStartup == InitEntity /\ [][NextStartup]_vars

\* C28: of the uploads of one file that the store accepted, at most one was
\* sent without a resourceId, whatever the order of the syncs and their
\* overlap; the file does not get two remote records.
C28_OneRecordPerFile ==
  \A path \in AllMdPaths :
    Cardinality({i \in 1..Len(uploads) :
                   /\ uploads[i].path = path
                   /\ uploads[i].passed = <<>>
                   /\ uploads[i].status = "ok"}) <= 1


\* C29: when a scanMemories call has finished, the lastScanAt of the ledger
\* it ran on is a time, not null: it is null only while no scan has run.
C29_ScanSetsLastScanAt ==
  out.op = "scan" => ScanLedger.lastScanAt # 0


\* C30: no event handler throws into the runtime, and a handler whose remote
\* call failed returns no result: the file_changed handler, the auto-context
\* handler and the emotional-state fetch and store handlers.
C30_HandlersBestEffort ==
  /\ ~eout.threw
  /\ eout.op \in {"fileChanged", "autoContext", "emotionalFetch", "emotionalStore"}
       /\ eout.error # "none" => eout.returned = "none"
C30_Witness ==
  /\ eout.op = "emotionalStore" /\ eout.error = "emotional-state store failed"
  /\ ~eout.threw /\ eout.returned = "none"
  /\ \E i \in 1..Len(uploads) : uploads[i].by = "handler" /\ uploads[i].status = "failed"


\* entity files a user has edited: with or without the hyperspell_id a sync
\* wrote, and source_memories and relationships values that are JSON or are not
EditedValues(json) == {<<json>>, <<T("{slack")>>, <<T("not"), T(" "), T("json")>>}
EditedFiles ==
  { << Word("---"),
       <<T("title"), T(":"), T(" "), T("Alice")>>,
       <<T("source_memories"), T(":"), T(" ")>> \o sm,
       <<T("relationships"), T(":"), T(" ")>> \o rel >>
     \o id \o
    << Word("---"),
       <<T("#"), T(" "), T("Alice")>>, <<>> >>
    : id \in {<<>>, << <<T("hyperspell_id"), T(":"), T(" "), TN("r", 9)>> >>},
      sm \in EditedValues(jsonOfSources([s \in {"slack"} |-> <<"A">>])),
      rel \in EditedValues(jsonOfList(<<"knows:people/bob">>)) }

InitEdited ==
  /\ remote = <<>>
  /\ failing = {}
  /\ fs = [f \in Paths |-> NoFile]
  /\ proc = [p \in Procs |-> IF p = "tool" THEN Constructed(NoFile) ELSE NoProc]
  /\ calls = <<>>
  /\ committed = {}
  /\ out = NoOut
  /\ md \in {[f \in AllMdPaths |-> IF f = EntityPath THEN entity ELSE NoText] : entity \in EditedFiles}
  /\ sync = NoSync
  /\ uploads = <<>>
  /\ writes = 0
  /\ eout = NoEout
  /\ slug = NoSlug

\* the write tool on an entity file a user has edited
NextEdited ==
  \/ \E params \in WriteParams : WriteEntity(params)
  \/ \E params \in WriteParams : WriteFailed(params)

SpecEdited == InitEdited /\ [][NextEdited]_vars

\* the value of the first line "key: value" of a file, wherever the line is
lineValue(text, key) ==
  LET at == {i \in 1..Len(text) :
               firstColon(text[i]) >= 2
                 /\ trim(SubSeq(text[i], 1, firstColon(text[i]) - 1)) = Word(key)}
      i == CHOOSE i \in at : \A j \in at : i <= j
  IN IF at = {} THEN <<>> ELSE trim(SubSeq(text[i], firstColon(text[i]) + 1, Len(text[i])))
\* the frontmatter lines of a file, as writeEntity reads them
fmLines(text) == IF text = NoText \/ fmClose(text) = 0 THEN <<>> ELSE SubSeq(text, 2, fmClose(text) - 1)
malformedField(text, key) ==
  \E i \in unparsable(fmLines(text)) :
    trim(SubSeq(fmLines(text)[i], 1, firstColon(fmLines(text)[i]) - 1)) = Word(key)

\* C31: a writeEntity call on a file whose source_memories or relationships
\* value is not JSON succeeds; it takes that field for empty, so the file it
\* writes holds for that field what the call gave, and it holds the
\* hyperspell_id the file had.
C31_MalformedJsonTolerated ==
  [][ writes' = writes + 1 /\ unparsable(fmLines(md[EntityPath])) # {} =>
        \A params \in WriteParams :
          md'[EntityPath] = writeEntity(md[EntityPath], params, writes') =>
            LET prev == md[EntityPath]
                new == md'[EntityPath]
            IN /\ eout'.success
               /\ lineValue(new, "hyperspell_id") = lineValue(fmLines(prev), "hyperspell_id")
               /\ malformedField(prev, "source_memories") =>
                    lineValue(new, "source_memories")
                      = <<jsonOfSources(mergeSources(EmptyMap, params.sourceMemories))>>
               /\ malformedField(prev, "relationships") =>
                    lineValue(new, "relationships")
                      = (IF params.relationships = <<>> THEN <<>>
                         ELSE <<jsonOfList(mergeRelationships(<<>>, params.relationships))>>)
               /\ lineValue(new, "title") = trim(Head(splitLines(params.name)))
    ]_vars
C31_Witness ==
  /\ writes = 1 /\ eout.op = "write" /\ eout.success
  /\ lineValue(md[EntityPath], "hyperspell_id") = <<TN("r", 9)>>
  /\ lineValue(md[EntityPath], "source_memories") = <<jsonOfSources([s \in {"slack"} |-> <<"D">>])>>
  /\ lineValue(md[EntityPath], "relationships") = <<>>


\* C32: an id that a successful complete has written to the ledger file is in
\* the ledger file ever after, whichever manager instance saves later, one
\* constructed before the id was written included.
C32_CommittedIdsStay ==
  committed \subseteq Keys(Led(LedgerFile).processedIds)


\* the frontmatter of a file as a set of key-value pairs, hyperspell_id apart
OtherFields(text) ==
  LET fm == parseFrontmatter(text).frontmatter
  IN {fm[i] : i \in {j \in 1..Len(fm) : fm[j].key # Word("hyperspell_id")}}

\* C33: over writeEntity and syncMarkdownFile calls on one entity file, in
\* any order, source_memories and relationships lose no element and
\* graph_entity stays true; the rewrite a sync makes changes hyperspell_id and
\* nothing else of the frontmatter or the body; a writeEntity call keeps the
\* hyperspell_id, so the next sync passes it as resourceId.
C33_WriteAndSyncKeepTheFile ==
  [][ LET prev == md[EntityPath]
          new == md'[EntityPath]
      IN prev # NoText /\ new # prev =>
           /\ \A s \in Keys(SourcesOf(prev)) :
                 /\ s \in Keys(SourcesOf(new))
                 /\ SeqToSet(SourcesOf(prev)[s]) \subseteq SeqToSet(SourcesOf(new)[s])
           /\ SeqToSet(RelationsOf(prev)) \subseteq SeqToSet(RelationsOf(new))
           /\ dictGet(parseFrontmatter(new).frontmatter, Word("graph_entity")) = Word("true")
           /\ writes' = writes =>
                 /\ OtherFields(new) = OtherFields(prev)
                 /\ parseFrontmatter(new).body = parseFrontmatter(prev).body
           /\ writes' = writes + 1 /\ IdOf(prev) # <<>> =>
                 /\ IdOf(new) = IdOf(prev)
                 /\ readHyperspellId(new) = IdOf(prev)
    ]_vars


\* C34: when syncMarkdownFile has returned success with resourceId r, the
\* frontmatter of the file holds hyperspell_id r, also when the rewrite of
\* the frontmatter could not write.
C34_SuccessMeansIdRecorded ==
  eout.op = "sync" /\ eout.success => IdOf(md[eout.path]) = eout.resourceId


\* file_changed events on a workspace that has a note in memory/, a note in
\* memory-old/, a note in docs/ and a text file in memory/
InitEvents ==
  /\ remote = <<>>
  /\ failing = {}
  /\ fs = [f \in Paths |-> NoFile]
  /\ proc = [p \in Procs |-> IF p = "tool" THEN Constructed(NoFile) ELSE NoProc]
  /\ calls = <<>>
  /\ committed = {}
  /\ out = NoOut
  /\ md \in {[f \in EventPaths |-> IF f \in {EntityPath, TodoPath} THEN NoText ELSE note]
               : note \in NoteValues}
  /\ sync = NoSync
  /\ uploads = <<>>
  /\ writes = 0
  /\ eout = NoEout
  /\ slug = NoSlug

NextEvents ==
  \/ \E path \in EventPaths : FileChangedIgnored(path)
  \/ \E path \in EventPaths : FileChangedRejected(path)
  \/ \E path \in EventPaths : FileChanged(path)
  \/ \E i \in 1..MaxUploads, rewriteOk \in BOOLEAN : FileChangedUploaded(i, rewriteOk)
  \/ \E i \in 1..MaxUploads : FileChangedUploadFailed(i)

SpecEvents == InitEvents /\ [][NextEvents]_vars

\* C35: the file_changed handler uploads only markdown files inside the
\* memory directory: a path in another directory, one whose name begins with
\* "memory" included, or a path not ending in .md is never uploaded.
C35_OnlyMemoryMarkdownUploaded ==
  \A i \in 1..Len(uploads) :
    /\ startsWith(pathText(uploads[i].path), <<"memory", "/">>)
    /\ endsWith(pathText(uploads[i].path), <<".md">>)


\* a file that holds of another only what writeEntity reads from it
onlyMerged(text) ==
  LET ex == readExisting(text)
  IN IF text = NoText THEN NoText
     ELSE << Word("---") >>
          \o (IF ex.hyperspellId # <<>>
              THEN << <<T("hyperspell_id"), T(":"), T(" ")>> \o ex.hyperspellId >> ELSE <<>>)
          \o << <<T("source_memories"), T(":"), T(" "), jsonOfSources(ex.sourceMemories)>>,
                <<T("relationships"), T(":"), T(" "), jsonOfList(ex.relationships)>>,
                Word("---"), <<>> >>

\* C36: the file a writeEntity call writes depends on the file it replaces
\* only through hyperspell_id, source_memories and relationships; title,
\* email, phone and domain are those of the call, so a call without email,
\* phone or domain writes a file without that field.
C36_OnlyThreeFieldsMerged ==
  [][ writes' = writes + 1 =>
        \A params \in WriteParams :
          md'[EntityPath] = writeEntity(md[EntityPath], params, writes') =>
            \E new \in {md'[EntityPath]} :
              /\ new = writeEntity(onlyMerged(md[EntityPath]), params, writes')
              /\ lineValue(new, "title") = trim(Head(splitLines(params.name)))
              /\ lineValue(new, "email") = trim(params.email)
              /\ lineValue(new, "phone") = trim(params.phone)
              /\ lineValue(new, "domain") = trim(params.domain)
    ]_vars
\* the file had an email, written with the google_mail source, and the call
\* after that one gave none
C36_Witness ==
  /\ writes = 2 /\ eout.op = "write" /\ eout.success
  /\ "google_mail" \in Keys(SourcesOf(md[EntityPath]))
  /\ lineValue(md[EntityPath], "email") = <<>>


\* C37: the ledger knows a record by its resourceId alone: a scan returns no
\* listed record whose resourceId is in the ledger, whatever the record's
\* source, so records of two sources with one resourceId are both passed over
\* once that id is completed.
C37_SkippedWhateverTheSource ==
  out.op = "scan" =>
    \A j \in 1..Len(remote) :
      remote[j].resourceId \in Keys(ScanLedger.processedIds) =>
        \A i \in 1..Len(out.result) : out.result[i].idx # j
\* a listing held one completed id under two sources, both eligible, and the
\* scan passed over both
C37_Witness ==
  /\ out.op = "scan" /\ out.result = <<>> /\ out.consumed = 2
  /\ Len(remote) >= 2
  /\ remote[1].resourceId = remote[2].resourceId
  /\ remote[1].source # remote[2].source
  /\ \A j \in 1..2 : remote[j].ge = "absent" /\ remote[j].status = "str:completed"
  /\ Keys(ScanLedger.processedIds) = {remote[1].resourceId}


\* the JSON value a constructed manager holds as its state: load returns the
\* parsed text as it is when its version is the current one
heldState(content) ==
  IF /\ content.kind = "json"
     /\ hasMember(content.text, "version")
     /\ member(content.text, "version") = JNumber(STATE_VERSION)
  THEN content.text
  ELSE stringify(FreshState)
\* `id in this.state.processedIds` and Object.keys(this.state.processedIds)
\* throw a TypeError when processedIds is not an object
raises(state) ==
  ~(hasMember(state, "processedIds") /\ member(state, "processedIds").kind = "object")

\* ledger files of the current version that were not written by save: one
\* without processedIds, one whose processedIds is null
OddFiles ==
  { [kind |-> "json", text |-> JObject({[key |-> "version", value |-> JNumber(STATE_VERSION)]})],
    [kind |-> "json",
     text |-> JObject({[key |-> "version", value |-> JNumber(STATE_VERSION)],
                       [key |-> "lastScanAt", value |-> JNull],
                       [key |-> "processedIds", value |-> JNull]})] }

InitFound ==
  /\ remote \in StoreListings
  /\ failing = {}
  /\ \E found \in FoundFiles \cup OddFiles :
       fs = [f \in Paths |-> IF f = StatePath THEN found ELSE NoFile]
  /\ proc = [p \in Procs |-> NoProc]
  /\ calls = <<>>
  /\ committed = {}
  /\ out = NoOut
  /\ InitEntityIdle

\* `network scan` on the file found: isProcessed raises at the first record
\* listed, getProcessedCount after an empty listing; the action's catch
\* prints the message
FoundScan ==
  IF raises(heldState(fs[StatePath]))
  THEN /\ proc["cli"].pc = "down"
       /\ out' = [NoOut EXCEPT !.op = "scanFailed", !.p = "cli", !.raised = TRUE,
                               !.text = [NoMessage EXCEPT !.kind = "Scan failed: "]]
       /\ UNCHANGED <<remote, failing, fs, proc, calls, committed, entityVars>>
  ELSE CliScan(1)

\* `network complete` on the file found: markProcessed raises at the first
\* id; with no id, save writes the state and getProcessedCount raises then
FoundComplete(memoryIds) ==
  IF raises(heldState(fs[StatePath]))
  THEN /\ proc["cli"].pc = "down"
       /\ Now < MaxClock
       /\ calls' = Append(calls, SeqToSet(memoryIds))
       /\ fs' = IF memoryIds # <<>> THEN fs
                ELSE [fs EXCEPT ![StatePath] =
                        [kind |-> "json",
                         text |-> JObject({m \in heldState(fs[StatePath]).members : m.key # "lastScanAt"}
                                          \cup {[key |-> "lastScanAt", value |-> JString(Now + 1)]})]]
       /\ out' = [NoOut EXCEPT !.op = "completeFailed", !.p = "cli", !.raised = TRUE,
                               !.ids = memoryIds,
                               !.text = [NoMessage EXCEPT !.kind = "Complete failed: "]]
       /\ UNCHANGED <<remote, failing, proc, committed, entityVars>>
  ELSE CompleteStart("cli", memoryIds)

NextFound ==
  \/ FoundScan
  \/ \E ids \in IdLists : FoundComplete(ids)
  \/ SaveWritten("cli")
  \/ SaveRenamed("cli")

SpecFound == InitFound /\ [][NextFound]_vars

\* C38: whatever the ledger file holds, the manager constructed on it holds
\* a ledger whose processedIds is a mapping and whose version is the current
\* one, and isProcessed, markProcessed and getProcessedCount do not raise on
\* it; a file of the current version without processedIds is such a file.
C38_LoadedLedgerWellFormed ==
  out.p = "cli" =>
    /\ ~raises(heldState(LedgerFile))
    /\ member(heldState(LedgerFile), "version") = JNumber(STATE_VERSION)
    /\ ~out.raised


\* C39: a scan calls getMemory once for each record it returns, in the order
\* of the listing, for no record it excludes, and for no record once the
\* batch holds batchSize records; the fetches are as many as the records
\* returned.
C39_OneFetchPerReturnedRecord ==
  out.op = "scan" =>
    /\ out.fetched = [k \in 1..Len(out.result) |-> out.result[k].idx]
    /\ Len(out.fetched) = Len(out.result)
    /\ \A k \in 1..Len(out.fetched) : k - 1 < out.batchSize

\* a text with every timestamp replaced by the same one
withoutTimestamp(text) ==
  [i \in 1..Len(text) |->
     [j \in 1..Len(text[i]) |-> IF text[i][j].w = "ts" THEN TN("ts", 0) ELSE text[i][j]]]
\* the rendered relationship lines of an entity file: "- <relationship>"
RelationLines(text) ==
  SelectSeq(text, LAMBDA l : Len(l) = 3 /\ l[1] = T("-") /\ l[2] = T(" "))

\* C26: a writeEntity call repeated with the same parameters on the file the
\* first call left writes that file again, the last_extracted timestamp apart,
\* and the file holds no source id, relationship or relationship line twice.
C26_WriteTwiceIsWriteOnce ==
  [][ writes' = writes + 1 =>
        \A params \in WriteParams :
          md'[EntityPath] = writeEntity(md[EntityPath], params, writes') =>
            LET once == md'[EntityPath]
                twice == writeEntity(once, params, writes' + 1)
            IN /\ withoutTimestamp(twice) = withoutTimestamp(once)
               /\ \A s \in Keys(SourcesOf(twice)) : NoDuplicates(SourcesOf(twice)[s])
               /\ NoDuplicates(RelationsOf(twice))
               /\ NoDuplicates(RelationLines(twice))
    ]_vars

============================================================================
